---------------------------- MODULE Spec2Model ----------------------------
(***************************************************************************)
(* CLAVEL: Lomb-Scargle periodogram engine (lombscargle.py), periodic      *)
(* feature extractor (periodicfeature.py), feature vector assembly and     *)
(* the per-star loop (starfeatures.py, starclasses.py).                    *)
(*                                                                         *)
(* Conventions.                                                            *)
(*  - Python lists are TLA+ sequences; a Python index i (0-based) reads    *)
(*    element i + 1 of the sequence (operator At).                         *)
(*  - Times and magnitudes are floats in the program; the model draws them *)
(*    from small integers and keeps every quotient as an exact fraction    *)
(*    [n, d] with d > 0 in lowest terms, so "/" is true division. Where    *)
(*    the rounding of binary64 decides the result (the acceptance test of  *)
(*    discard_first_measures_far_in_time, np.std and np.average of equal   *)
(*    values) the model computes in binary64.                              *)
(*  - scipy.signal.lombscargle is a library outside the repository: its    *)
(*    result for a curve is an input of the model (scipy_pgram), a         *)
(*    sequence of freq_to_calculate non-negative powers.                   *)
(*  - A Python exception is the name of its class in a result record       *)
(*    (field exc, "" when the call returns).                               *)
(***************************************************************************)
EXTENDS Integers, Sequences, FiniteSets, TLC

VARIABLES
    lsprop,                 \* the LSProperties object shared by engine and extractor
    nmags,                  \* LombScargle.nmags
    ntimes,                 \* LombScargle.ntimes
    unix_times,             \* argument of the current call: observation times
    mags,                   \* argument of the current call: magnitudes
    scipy_pgram,            \* what scipy.signal.lombscargle returns for the curve
    first_measure,          \* value returned by discard_first_measures_far_in_time
    feature,                \* values returned by StarsFeatures.save_feature
    feat_names,             \* names returned by StarsFeatures.save_feature
    exc,                    \* exception that ended the last call ("" if none)
    pc,                     \* position of the caller
    db,                     \* LEMON database: light curve of each (star, filter)
    stars_identifiers,      \* StarClasses.__stars_identifiers
    enabled,                \* StarClasses.__enabled
    features_all_filters,   \* StarClasses.__features_all_filters
    star_index,             \* loop variable of calculate_features
    filter_index,           \* loop variable of calculate_features
    stars_classes_names,    \* StarClasses.__stars_classes_names
    unique_classes_names,   \* StarClasses.__unique_classes_names
    tr_ev_sets,             \* the TrainEvalSet object
    indexes                 \* value returned by training/evaluation_indexes

vars == <<lsprop, nmags, ntimes, unix_times, mags, scipy_pgram, first_measure,
          feature, feat_names, exc, pc, db, stars_identifiers, enabled,
          features_all_filters, star_index, filter_index,
          stars_classes_names, unique_classes_names, tr_ev_sets, indexes>>

engine_vars == <<lsprop, nmags, ntimes, unix_times, mags, scipy_pgram,
                 first_measure, feature, feat_names>>

classes_vars == <<db, stars_identifiers, enabled, features_all_filters,
                  star_index, filter_index>>

sets_vars == <<stars_classes_names, unique_classes_names, tr_ev_sets, indexes>>

-----------------------------------------------------------------------------
(* Bounds of the model.                                                    *)

MaxN == 5           \* longest light curve of the curve-driven specification
MaxGap == 3         \* largest gap between consecutive observation times
MaxFreqs == 4       \* longest spectrum of the spectrum-driven specification
MaxPower == 2       \* largest power of a spectrum bin
MaxPeaks == 3       \* largest number_of_freq
MaxStars == 2       \* most stars of the database
MaxClassified == 3  \* most stars with a class name given to a TrainEvalSet
MaxRegularGaps == 20 \* most regular gaps after the long first gap of a curve
MaxRegularGap == 2  \* largest regular gap after a long first gap
MaxEvenGaps == 31   \* most gaps of a curve sampled at even spacing

-----------------------------------------------------------------------------
(* Exact arithmetic on fractions.                                          *)

Abs(x) == IF x < 0 THEN -x ELSE x

RECURSIVE GCD(_, _)
GCD(a, b) == IF b = 0 THEN a ELSE GCD(b, a % b)

\* The fraction n / d (d # 0) with a positive denominator, in lowest terms.
Rat(n, d) ==
    LET g == GCD(Abs(n), Abs(d))
        s == IF d < 0 THEN -1 ELSE 1
    IN [n |-> (s * n) \div g, d |-> (s * d) \div g]

RatInt(x) == [n |-> x, d |-> 1]
RatAdd(a, b) == Rat(a.n * b.d + b.n * a.d, a.d * b.d)
RatSub(a, b) == Rat(a.n * b.d - b.n * a.d, a.d * b.d)
RatMul(a, b) == Rat(a.n * b.n, a.d * b.d)
RatDivInt(a, k) == Rat(a.n, a.d * k)
RatLess(a, b) == a.n * b.d < b.n * a.d
RatLeq(a, b) == a.n * b.d <= b.n * a.d

-----------------------------------------------------------------------------
(* Python lists and numpy helpers.                                         *)

\* list[i] for a 0-based index i.
At(list, i) == list[i + 1]

\* list[i:] for 0 <= i.
SliceFrom(list, i) == SubSeq(list, i + 1, Len(list))

RECURSIVE SumSeq(_)
SumSeq(s) == IF s = <<>> THEN 0 ELSE Head(s) + SumSeq(Tail(s))

\* np.mean of a non-empty array of integers.
Mean(a) == Rat(SumSeq(a), Len(a))

\* np.argmax: the first index holding the maximum.
argmax(a) ==
    CHOOSE i \in 0..(Len(a) - 1) :
        /\ \A j \in 0..(Len(a) - 1) : At(a, j) <= At(a, i)
        /\ \A j \in 0..(i - 1) : At(a, j) < At(a, i)

\* Results of a call: a returned value or a raised exception.
Return(v) == [exc |-> "", value |-> v]
Raise(e) == [exc |-> e, value |-> <<>>]

-----------------------------------------------------------------------------
(* lombscargle.py: LSProperties and LombScargle.                           *)

DefaultFirstFreq == 1
DefaultMaxFreqToSeek == 10000
DefaultFreqToCalculate == 200
DefaultNumberOfFreq == 3

\* LSProperties.__init__. max_freq is the float 0.0; max_freq_to_seek is kept
\* as a fraction. max_freq_calculated and pgram are attributes the engine adds
\* later: absent until it has run.
Absent == [absent |-> TRUE]

LSProperties(first_freq_, max_freq_to_seek_, freq_to_calculate_, number_of_freq_) ==
    [first_freq |-> first_freq_,
     max_freq_to_seek |-> max_freq_to_seek_,
     freq_to_calculate |-> freq_to_calculate_,
     number_of_freq |-> number_of_freq_,
     max_freq |-> 0,
     index_max_values |-> <<>>,
     max_freq_calculated |-> Absent,
     pgram |-> <<>>]

\* Faulty variant of next_maximums: the bin of the previous maximum is not zeroed.
RECURSIVE next_maximums_not_zeroed(_, _, _, _)
next_maximums_not_zeroed(series_copy, index_max_values, n, stop) ==
    IF n >= stop THEN index_max_values
    ELSE next_maximums_not_zeroed(series_copy,
                                  Append(index_max_values, argmax(series_copy)),
                                  n + 1, stop)

\* Faulty variant of next_maximums: the bin zeroed is always that of the
\* first maximum.
RECURSIVE next_maximums_first_zeroed(_, _, _, _)
next_maximums_first_zeroed(series_copy, index_max_values, n, stop) ==
    IF n >= stop THEN index_max_values
    ELSE LET zeroed == [series_copy EXCEPT ![At(index_max_values, 0) + 1] = 0]
         IN next_maximums_first_zeroed(zeroed,
                Append(index_max_values, argmax(zeroed)), n + 1, stop)

\* The loop "for n in range(number_of_freq - 1)" of get_index_max_values:
\* zero the bin of the previous maximum in the copy, append the next argmax.
RECURSIVE next_maximums(_, _, _, _)
next_maximums(series_copy, index_max_values, n, stop) ==
    IF n >= stop THEN index_max_values
    ELSE LET zeroed == [series_copy EXCEPT ![At(index_max_values, n) + 1] = 0]
         IN next_maximums(zeroed, Append(index_max_values, argmax(zeroed)),
                          n + 1, stop)

\* Faulty variant of get_index_max_values: the list of the previous call is
\* not emptied before the maximums are appended.
get_index_max_values_not_emptied(lp) ==
    next_maximums(lp.pgram, lp.index_max_values \o <<argmax(lp.pgram)>>, 0,
                  lp.number_of_freq - 1)

\* LombScargle.get_index_max_values: the new lsprop.index_max_values.
\* lsprop.pgram itself is only read (the loop works on np.copy of it).
get_index_max_values(lp) ==
    next_maximums(lp.pgram, <<argmax(lp.pgram)>>, 0, lp.number_of_freq - 1)

-----------------------------------------------------------------------------
(* Binary64 arithmetic of numpy, for the results that depend on rounding.  *)
(* A finite double is (-1)^neg * m * 2^e with m a natural number below     *)
(* 2^53, odd unless the double is 0. A natural number of any size is the   *)
(* sequence of its limbs below 2^13, the least significant first, without  *)
(* a zero last limb. Every operation is the exact result rounded to        *)
(* nearest, to even on a tie; the exponent range of binary64 (overflow,    *)
(* subnormal numbers) and the sign of zero are left out.                   *)

LimbBits == 13
Limb == 2^LimbBits

\* The limbs of a natural number below 2^31.
Limbs(x) ==
    IF x = 0 THEN <<>>
    ELSE IF x < Limb THEN <<x>>
    ELSE IF x < Limb * Limb THEN <<x % Limb, x \div Limb>>
    ELSE <<x % Limb, (x \div Limb) % Limb, x \div (Limb * Limb)>>

LimbAt(a, i) == IF i \in 1..Len(a) THEN a[i] ELSE 0

\* a without its zero last limbs.
Trim(a) ==
    IF \A i \in 1..Len(a) : a[i] = 0 THEN <<>>
    ELSE SubSeq(a, 1, CHOOSE i \in 1..Len(a) :
                          a[i] # 0 /\ \A j \in (i + 1)..Len(a) : a[j] = 0)

\* The limbs of the natural number sum of cols[j] * Limb^(j - 1), from
\* column i with carry c; a column may be negative or exceed a limb.
RECURSIVE Carry(_, _, _)
Carry(cols, i, c) ==
    IF i > Len(cols) THEN Limbs(c)
    ELSE <<(cols[i] + c) % Limb>> \o Carry(cols, i + 1, (cols[i] + c) \div Limb)

BigAdd(a, b) ==
    Trim(Carry([i \in 1..(Len(a) + Len(b)) |-> LimbAt(a, i) + LimbAt(b, i)],
               1, 0))

\* a - b for a >= b.
BigSub(a, b) ==
    Trim(Carry([i \in 1..Len(a) |-> a[i] - LimbAt(b, i)], 1, 0))

RECURSIVE BigMul(_, _)
BigMul(a, b) ==
    IF b = <<>> THEN <<>>
    ELSE BigAdd(Carry([i \in 1..Len(a) |-> a[i] * b[1]], 1, 0),
                <<0>> \o BigMul(a, Tail(b)))

BigLess(a, b) ==
    \/ Len(a) < Len(b)
    \/ /\ Len(a) = Len(b)
       /\ \E i \in 1..Len(a) :
              a[i] < b[i] /\ \A j \in (i + 1)..Len(a) : a[j] = b[j]

\* a * 2^t
BigShl(a, t) ==
    Trim(Carry([i \in 1..(Len(a) + t \div LimbBits) |->
                   IF i <= t \div LimbBits THEN 0
                   ELSE a[i - t \div LimbBits] * 2^(t % LimbBits)],
               1, 0))

\* floor(a / 2^r)
BigShr(a, r) ==
    Trim([i \in 1..Len(a) |->
             LimbAt(a, i + r \div LimbBits) \div 2^(r % LimbBits)
             + (LimbAt(a, i + r \div LimbBits + 1) % 2^(r % LimbBits))
               * 2^(LimbBits - (r % LimbBits))])

\* The remainder by k (in 1..2^17) of the number made of the limbs of a
\* from limb i up.
RECURSIVE BigRem(_, _, _)
BigRem(a, k, i) ==
    IF i > Len(a) THEN 0 ELSE (BigRem(a, k, i + 1) * Limb + a[i]) % k

\* floor(a / k) for k in 1..2^17, by long division.
BigDivSmall(a, k) ==
    Trim([i \in 1..Len(a) |-> (BigRem(a, k, i + 1) * Limb + a[i]) \div k])

\* Number of bits of a.
BigBits(a) ==
    IF a = <<>> THEN 0
    ELSE LimbBits * (Len(a) - 1)
         + (CHOOSE b \in 1..LimbBits :
                a[Len(a)] < 2^b /\ a[Len(a)] >= 2^(b - 1))

\* Number of trailing zero bits of a positive a: the place z of its lowest
\* bit that is set.
BigTrailingZeros(a) ==
    CHOOSE z \in 0..(LimbBits * Len(a) - 1) :
        /\ a[z \div LimbBits + 1] % 2^((z % LimbBits) + 1) = 2^(z % LimbBits)
        /\ \A j \in 1..(z \div LimbBits) : a[j] = 0

\* The double (-1)^neg * m * 2^e for m below 2^53, in its unique form.
Canonical(neg, m, e) ==
    IF m = <<>> THEN [neg |-> FALSE, m |-> <<>>, e |-> 0]
    ELSE [neg |-> neg, m |-> BigShr(m, BigTrailingZeros(m)),
          e |-> e + BigTrailingZeros(m)]

FloatZero == Canonical(FALSE, <<>>, 0)

\* The double of a value the program holds: a numpy float64 as it is, a
\* Python or numpy integer converted (exactly, below 2^31).
as_double(x) ==
    IF Head(ToString(x)) = "[" THEN x
    ELSE Canonical(x < 0, Limbs(IF x < 0 THEN 0 - x ELSE x), 0)

\* A result this arithmetic does not reach: an operand out of its range.
OutOfReach == [out_of_reach |-> TRUE]

\* The exact value (-1)^neg * n * 2^e rounded to the multiple of 2^r nearest
\* to n, to the even one on a tie: floor(n / 2^r), and one more when bit
\* r - 1 of n is set and either a bit below it or bit r is set.
round_quotient(neg, n, e, r) ==
    Canonical(neg,
              BigAdd(BigShr(n, r),
                     IF /\ r > 0
                        /\ (LimbAt(n, (r - 1) \div LimbBits + 1)
                               \div 2^((r - 1) % LimbBits)) % 2 = 1
                        /\ \/ BigTrailingZeros(n) < r - 1
                           \/ (LimbAt(n, r \div LimbBits + 1)
                                  \div 2^(r % LimbBits)) % 2 = 1
                     THEN <<1>>
                     ELSE <<>>),
              e + r)

\* The exact value (-1)^neg * n * 2^e, n positive, rounded to 53 bits, to
\* nearest and to even on a tie.
round_to_double(neg, n, e) ==
    round_quotient(neg, n, e, IF BigBits(n) > 53 THEN BigBits(n) - 53 ELSE 0)

\* The sum of (-1)^xneg * X * 2^e and (-1)^yneg * Y * 2^e, rounded: the sum
\* of X and Y under a common sign, else the difference of the larger and the
\* smaller under the sign of the larger.
fl_add_exact(xneg, X, yneg, Y, e) ==
    IF xneg # yneg /\ X = Y THEN Canonical(FALSE, <<>>, 0)
    ELSE round_to_double(IF xneg = yneg \/ BigLess(Y, X) THEN xneg ELSE yneg,
                         IF xneg = yneg THEN BigAdd(X, Y)
                         ELSE IF BigLess(Y, X) THEN BigSub(X, Y)
                         ELSE BigSub(Y, X),
                         e)

\* x + y on doubles: the exact sum on the smaller exponent, then rounded.
\* An operand whose first bit is 55 places or more below the first bit of
\* the other is below a quarter of its last place and leaves it unchanged.
fl_add(x, y) ==
    IF x.m = <<>> THEN y
    ELSE IF y.m = <<>> THEN x
    ELSE IF x.e + BigBits(x.m) - (y.e + BigBits(y.m)) >= 55 THEN x
    ELSE IF y.e + BigBits(y.m) - (x.e + BigBits(x.m)) >= 55 THEN y
    ELSE fl_add_exact(x.neg,
                      BigShl(x.m, IF x.e < y.e THEN 0 ELSE x.e - y.e),
                      y.neg,
                      BigShl(y.m, IF x.e < y.e THEN y.e - x.e ELSE 0),
                      IF x.e < y.e THEN x.e ELSE y.e)

\* x - y on doubles.
fl_sub(x, y) ==
    fl_add(x, IF y.m = <<>> THEN y ELSE [y EXCEPT !.neg = ~y.neg])

\* x < y on doubles: x - y is negative.
fl_less(x, y) == \E dif \in {fl_sub(x, y)} : dif.m # <<>> /\ dif.neg

\* x * y on doubles: the exact product, then rounded.
fl_mul(x, y) ==
    IF x.m = <<>> \/ y.m = <<>> THEN Canonical(FALSE, <<>>, 0)
    ELSE round_to_double(x.neg # y.neg, BigMul(x.m, y.m), x.e + y.e)

\* x / k for a non-zero double, m * 2^t having 72 bits: the quotient by k,
\* of 55 bits or more, with one more bit that tells whether the division
\* left a remainder, then rounded.
fl_div_shifted(x, k, t) ==
    round_to_double(x.neg,
                    BigAdd(BigShl(BigDivSmall(BigShl(x.m, t), k), 1),
                           IF BigRem(BigShl(x.m, t), k, 1) = 0 THEN <<>>
                           ELSE <<1>>),
                    x.e - t - 1)

\* x / k on doubles, k an integer in 1..2^17 (a number of elements).
fl_div(x, k) ==
    IF x.m = <<>> THEN x ELSE fl_div_shifted(x, k, 72 - BigBits(x.m))

\* sqrt(x) on a double that is the square of a double with m below 2^13.
fl_sqrt(x) ==
    IF x.m = <<>> THEN FloatZero
    ELSE IF /\ ~x.neg /\ Len(x.m) <= 2 /\ x.e % 2 = 0
            /\ \E root \in 1..Limb :
                   root * root = x.m[1] + LimbAt(x.m, 2) * Limb
    THEN Canonical(FALSE,
                   Limbs(CHOOSE root \in 1..Limb :
                             root * root = x.m[1] + LimbAt(x.m, 2) * Limb),
                   x.e \div 2)
    ELSE OutOfReach

\* np.add.reduce of an array: its elements added in the order of the array,
\* which is the sum of numpy for fewer than 8 doubles and for integers (an
\* exact sum, in every order).
RECURSIVE add_reduce_loop(_, _, _)
add_reduce_loop(a, i, res) ==
    IF i > Len(a) THEN res
    ELSE add_reduce_loop(a, i + 1, fl_add(res, as_double(a[i])))

add_reduce(a) == add_reduce_loop(a, 1, FloatZero)

\* np.average(a) and np.mean(a) of a non-empty array, no weights: the sum
\* over the count.
np_average(a) == fl_div(add_reduce(a), Len(a))

\* The root of the mean of the squares of x, the deviations from the mean.
std_about(x) ==
    fl_sqrt(fl_div(add_reduce([i \in 1..Len(x) |-> fl_mul(x[i], x[i])]),
                   Len(x)))

\* np.std(a) of a non-empty array: the root of the mean of the squares of
\* the deviations from the mean.
np_std(a) ==
    std_about([i \in 1..Len(a) |-> fl_sub(as_double(a[i]), np_average(a))])

-----------------------------------------------------------------------------
(* lombscargle.py: the observations the periodogram is computed from.      *)

\* intervals of discard_first_measures_far_in_time.
Intervals(times) ==
    [i \in 1..(IF Len(times) = 0 THEN 0 ELSE Len(times) - 1) |->
        times[i + 1] - times[i]]

\* The acceptance test of discard_first_measures_far_in_time, on the
\* doubles m and new_m that np.mean returns:
\*   dev = new_m + 0.1 * new_m;  m < new_m + dev and m > new_m - dev
\* with 0.1 the double nearest to 1 / 10.
stabilized(m, new_m) ==
    \E dev \in {fl_add(new_m, fl_mul(fl_div(as_double(1), 10), new_m))} :
        /\ fl_less(m, fl_add(new_m, dev))
        /\ fl_less(fl_sub(new_m, dev), m)

\* Faulty variant of discard_loop: the index returned is i, not i - 1.
RECURSIVE discard_loop_returns_i(_, _, _)
discard_loop_returns_i(intervals, m, i) ==
    IF ~(i < Len(intervals)) THEN 0
    ELSE CHOOSE first \in
             {IF stabilized(m, new_m) THEN i
              ELSE discard_loop_returns_i(intervals, new_m, i + 1) :
                  new_m \in {np_average(SliceFrom(intervals, i))}} : TRUE

\* Faulty variant of discard_loop: a walk that never accepts returns the
\* last index it tried instead of 0.
RECURSIVE discard_loop_keeps_last_index(_, _, _)
discard_loop_keeps_last_index(intervals, m, i) ==
    IF ~(i < Len(intervals)) THEN i - 1
    ELSE CHOOSE first \in
             {IF stabilized(m, new_m) THEN i - 1
              ELSE discard_loop_keeps_last_index(intervals, new_m, i + 1) :
                  new_m \in {np_average(SliceFrom(intervals, i))}} : TRUE

\* The while loop of discard_first_measures_far_in_time, from index i with
\* running mean m; its value is first_measure (the one element of the set,
\* new_m being computed once).
RECURSIVE discard_loop(_, _, _)
discard_loop(intervals, m, i) ==
    IF ~(i < Len(intervals)) THEN 0
    ELSE CHOOSE first \in
             {IF stabilized(m, new_m) THEN i - 1
              ELSE discard_loop(intervals, new_m, i + 1) :
                  new_m \in {np_average(SliceFrom(intervals, i))}} : TRUE

\* LombScargle.discard_first_measures_far_in_time. With fewer than three
\* times the loop is not entered (np.mean of an empty array is nan, with a
\* warning and no exception) and 0 is returned.
discard_first_measures_far_in_time(times) ==
    LET intervals == Intervals(times)
    IN IF Len(intervals) < 2 THEN 0
       ELSE discard_loop(intervals, np_average(intervals), 1)

\* Faulty variant of rebased_times: increments regarding the first observation of the
\* curve instead of the first retained one.
rebased_times_on_first_observation(times, first) ==
    <<0>> \o [k \in 1..(Len(times) - 1 - first) |->
                 times[first + 1 + k] - times[1]]

\* times and self.nmags of calculate_periodgram_from_curve (lines 185-193).
rebased_times(times, first) ==
    <<0>> \o [k \in 1..(Len(times) - 1 - first) |->
                 times[first + 1 + k] - times[first + 1]]

cleaned_mags(ms, times, first) == SubSeq(ms, first + 1, Len(times))

\* Faulty variant of chosen_max_freq: the configured frequency caps the Nyquist one.
chosen_max_freq_capped(max_freq_seek, max_freq_to_seek) ==
    IF RatLess(max_freq_seek, max_freq_to_seek) THEN max_freq_seek
    ELSE max_freq_to_seek

\* lsprop.max_freq_calculated (lines 205-207):
\*   max_freq_seek if max_freq_seek > max_freq_to_seek else max_freq_to_seek
chosen_max_freq(max_freq_seek, max_freq_to_seek) ==
    IF RatLess(max_freq_to_seek, max_freq_seek) THEN max_freq_seek
    ELSE max_freq_to_seek

\* Faulty variant of sample_frequency: the quotient of numpy floats, which
\* raises nothing when the divisor is 0 (0 stands for its inf or nan).
sample_frequency_unchecked(count, span) ==
    IF span = 0 THEN Return(RatInt(0)) ELSE Return(Rat(count, span))

\* The quotient sample_freq of calculate_periodgram_from_curve: Python
\* raises ZeroDivisionError when the divisor is 0.
sample_frequency(count, span) ==
    IF span = 0 THEN Raise("ZeroDivisionError") ELSE Return(Rat(count, span))

\* LombScargle.calculate_periodgram_from_curve on the engine (lp, nm, nt):
\* the engine after the call and the exception that ended it, if any.
\* pg is the result of scipy.signal.lombscargle for the cleaned curve.
\* The call is the one element of the set below, first being the result of
\* the one call of discard_first_measures_far_in_time (line 181).
calculate_periodgram_from_curve(lp, nm, nt, times, ms, pg) ==
    CHOOSE engine \in
    {LET N == Len(times)
     IN IF N = 0
        THEN \* unix_times[first_measure] on an empty tuple
             [lsprop |-> lp, nmags |-> nm, ntimes |-> nt, exc |-> "IndexError"]
        ELSE LET new_nt == rebased_times(times, first)
                 new_nm == cleaned_mags(ms, times, first)
                 sample_freq == sample_frequency(N - 1 - first,
                                                 times[N] - times[first + 1])
             IN IF sample_freq.exc # ""
                THEN [lsprop |-> lp, nmags |-> new_nm, ntimes |-> new_nt,
                      exc |-> sample_freq.exc]
                ELSE LET max_freq_seek == RatDivInt(sample_freq.value, 2)
                         cap == lp.max_freq_to_seek
                         lp1 == [lp EXCEPT
                                   !.max_freq_calculated =
                                       chosen_max_freq(max_freq_seek, cap),
                                   !.pgram = pg]
                         lp2 == [lp1 EXCEPT
                                   !.index_max_values = get_index_max_values(lp1)]
                     IN [lsprop |-> lp2, nmags |-> new_nm, ntimes |-> new_nt,
                         exc |-> ""] :
        first \in {discard_first_measures_far_in_time(times)}} : TRUE

-----------------------------------------------------------------------------
(* periodicfeature.py: PeriodicFeature. An accessor returns                *)
(* [exc, value, name]; the name is formatted before any check is made.     *)

Accessor(v, nm) == [exc |-> "", value |-> v, name |-> nm]
Failed(e, nm) == [exc |-> e, value |-> <<>>, name |-> nm]

\* PeriodicFeature.__init__(pgram_, lsprop_, num_freq_ = 3)
PeriodicFeature(pgram_, lsprop_, num_freq_) ==
    [num_freq |-> num_freq_, lsprop |-> lsprop_, pgram |-> pgram_]

\* PeriodicFeature.__get_freq_from_index
get_freq_from_index(pf, index) ==
    IF index >= Len(pf.pgram) THEN Raise("IndexError")
    ELSE LET interval == Rat(pf.lsprop.max_freq - pf.lsprop.first_freq,
                             pf.lsprop.freq_to_calculate)
         IN Return(RatAdd(RatInt(pf.lsprop.first_freq),
                          RatMul(RatInt(index), interval)))

\* PeriodicFeature.__get_freq_n
get_freq_n(pf, num_freq) ==
    IF num_freq >= Len(pf.lsprop.index_max_values) THEN Raise("IndexError")
    ELSE get_freq_from_index(pf, At(pf.lsprop.index_max_values, num_freq))

\* Faulty variant of get_amplitude_n: the bin read is the one at the number
\* of the slot, not the one at the peak index of the slot.
get_amplitude_n_of_slot(pf, num_freq) ==
    IF num_freq < Len(pf.lsprop.index_max_values)
    THEN Return(At(pf.pgram, num_freq))
    ELSE Raise("IndexError")

\* PeriodicFeature.__get_amplitude_n
get_amplitude_n(pf, num_freq) ==
    IF num_freq < Len(pf.lsprop.index_max_values)
    THEN Return(At(pf.pgram, At(pf.lsprop.index_max_values, num_freq)))
    ELSE Raise("IndexError")

\* Faulty variant of get_amp_harm_n: harmonic 0 read at twice the peak index.
get_amp_harm_n_from_double(pf, num_freq, harm) ==
    IF num_freq >= Len(pf.lsprop.index_max_values) THEN Raise("IndexError")
    ELSE LET actual_harm_index ==
                 At(pf.lsprop.index_max_values, num_freq) * (harm + 2)
         IN IF actual_harm_index < Len(pf.pgram)
            THEN Return(At(pf.pgram, actual_harm_index))
            ELSE Return(0)

\* PeriodicFeature.__get_amp_harm_n
get_amp_harm_n(pf, num_freq, harm) ==
    IF num_freq >= Len(pf.lsprop.index_max_values) THEN Raise("IndexError")
    ELSE LET actual_harm_index ==
                 At(pf.lsprop.index_max_values, num_freq) * (harm + 1)
         IN IF actual_harm_index < Len(pf.pgram)
            THEN Return(At(pf.pgram, actual_harm_index))
            ELSE Return(0)

\* Faulty variant of get_fund_freq: n is not compared with num_freq.
get_fund_freq_any_slot(pf, n) ==
    LET param_name == "Fund_Freq_" \o ToString(n)
        r == get_freq_n(pf, n)
    IN [exc |-> r.exc, value |-> r.value, name |-> param_name]

\* PeriodicFeature.get_fund_freq
get_fund_freq(pf, n) ==
    LET param_name == "Fund_Freq_" \o ToString(n)
    IN IF n < pf.num_freq
       THEN LET r == get_freq_n(pf, n)
            IN [exc |-> r.exc, value |-> r.value, name |-> param_name]
       ELSE Failed("IndexError", param_name)

\* PeriodicFeature.get_amplitude
get_amplitude(pf, n) ==
    LET param_name == "Fund_Amp_" \o ToString(n)
        r == get_amplitude_n(pf, n)
    IN [exc |-> r.exc, value |-> r.value, name |-> param_name]

\* The loop "for n in range(4)" of get_amplitude_firsts_harm, from harmonic n
\* with the lists built so far.
RECURSIVE firsts_harm_loop(_, _, _, _)
firsts_harm_loop(pf, fund_freq, n, acc) ==
    IF n >= 4 \/ acc.exc # "" THEN acc
    ELSE LET r == get_amp_harm_n(pf, fund_freq, n)
         IN firsts_harm_loop(pf, fund_freq, n + 1,
                IF r.exc # "" THEN Failed(r.exc, <<>>)
                ELSE Accessor(Append(acc.value, r.value),
                              Append(acc.name, "Amp_Harm_" \o ToString(n))))

\* PeriodicFeature.get_amplitude_firsts_harm: value and name are lists.
get_amplitude_firsts_harm(pf, fund_freq) ==
    firsts_harm_loop(pf, fund_freq, 0, Accessor(<<>>, <<>>))

\* The scan of freq_y_offset over a non-empty list: offset starts at the
\* first value and is replaced by every smaller value met, which leaves the
\* least value of the list.
min_scan(a) ==
    CHOOSE offset \in {a[i] : i \in 1..Len(a)} :
        \A j \in 1..Len(a) : ~(a[j] < offset)

\* PeriodicFeature.freq_y_offset
freq_y_offset(pf) ==
    IF Len(pf.pgram) = 0 THEN Failed("IndexError", "Freq_Offset")
    ELSE Accessor(min_scan(pf.pgram), "Freq_Offset")

-----------------------------------------------------------------------------
(* nonperiodicfeature.py: NonPeriodicFeature. The statistics are floating  *)
(* point results of numpy and scipy. max_slope, pair_slope_trend and the   *)
(* median band are computed on exact fractions, std and beyond1st in       *)
(* binary64 for a series of equal values; the model keeps each of the      *)
(* others as the term "statistic f of these arrays", which is all the      *)
(* assembly of the feature vector reads of it.                             *)

\* NonPeriodicFeature.__init__(nmags_, ntimes_)
NonPeriodicFeature(nmags_, ntimes_) == [nmags |-> nmags_, ntimes |-> ntimes_]

\* The value of a statistic that reads the magnitudes only.
OfMags(f, np) == [statistic |-> f, nmags |-> np.nmags, ntimes |-> <<>>]

\* The value of a statistic that reads the magnitudes and the times.
OfCurve(f, np) == [statistic |-> f, nmags |-> np.nmags, ntimes |-> np.ntimes]

\* NonPeriodicFeature.amplitude_dif: (max - min) / 2 of nmags. Without
\* magnitudes np.argmax raises ValueError.
amplitude_dif(np) ==
    IF Len(np.nmags) = 0 THEN Failed("ValueError", "Amp_diff")
    ELSE Accessor(OfMags("amplitude_dif", np), "Amp_diff")

\* The series whose average and standard deviation are computed in
\* binary64: 2 to 7 equal values, doubles or integers (the sums of numpy
\* are in the order of the array below 8 values, and the mean of the
\* squares of np_std has a root in reach of fl_sqrt).
EqualValues(a) == Len(a) \in 2..7 /\ \A i \in 1..Len(a) : a[i] = a[1]

\* The loop of beyond1st: the number of values below avg - std or above
\* avg + std.
number_of_points(a, avg, std_) ==
    Cardinality({n \in 1..Len(a) :
                    \/ fl_less(as_double(a[n]), fl_sub(avg, std_))
                    \/ fl_less(fl_add(avg, std_), as_double(a[n]))})

\* NonPeriodicFeature.beyond1st: percentage of nmags beyond one standard
\* deviation of the average.
beyond1st(np) ==
    IF EqualValues(np.nmags)
    THEN Accessor(Rat(number_of_points(np.nmags, np_average(np.nmags),
                                       np_std(np.nmags)) * 100,
                      Len(np.nmags)),
                  "Beyond1st")
    ELSE Accessor(OfMags("beyond1st", np), "Beyond1st")

\* NonPeriodicFeature.linear_trend: slope of scipy.stats.linregress(ntimes, nmags)
linear_trend(np) == Accessor(OfCurve("linear_trend", np), "Linear_Tren")

\* The float values that are no fraction: what numpy gives for x / 0.
PlusInf == [inf |-> 1]
MinusInf == [inf |-> 0 - 1]
NaN == [nan |-> TRUE]

\* NonPeriodicFeature.__interval_avg_and_std for two times or more: the
\* average of the intervals and their variance (the square of np.std).
interval_avg_and_var(np) ==
    LET intervals == [n \in 1..(Len(np.ntimes) - 1) |->
                         np.ntimes[n + 1] - np.ntimes[n]]
        interval_avg == Mean(intervals)
        squares == [n \in 1..Len(intervals) |->
                       LET dev == RatSub(RatInt(intervals[n]), interval_avg)
                       IN RatMul(dev, dev)]
    IN [avg |-> interval_avg, squares |-> squares]

\* The sum of a list of fractions.
RECURSIVE RatSum(_)
RatSum(a) == IF a = <<>> THEN RatInt(0) ELSE RatAdd(Head(a), RatSum(Tail(a)))

\* The interval test with <= in place of <.
below_max_size_or_equal(interval, avg, var) ==
    LET excess == RatSub(RatInt(interval), avg)
    IN \/ RatLeq(excess, RatInt(0))
       \/ RatLeq(RatMul(excess, excess), var)

\* interval < interval_avg + interval_std, decided on the variance: true
\* below the average, and above it when the square of the excess is below
\* the variance.
below_max_size(interval, avg, var) ==
    LET excess == RatSub(RatInt(interval), avg)
    IN \/ RatLess(excess, RatInt(0))
       \/ RatLess(RatMul(excess, excess), var)

\* NonPeriodicFeature.__calculate_slope on numpy floats: (y2 - y1) / (x2 - x1),
\* inf, -inf or nan when x2 = x1.
calculate_slope(x1, x2, y1, y2) ==
    IF x2 - x1 # 0 THEN Rat(y2 - y1, x2 - x1)
    ELSE IF y2 - y1 > 0 THEN PlusInf
    ELSE IF y2 - y1 < 0 THEN MinusInf
    ELSE NaN

\* current_slope > max_slp on floats.
slope_greater(current_slope, max_slp) ==
    IF current_slope \in {MinusInf, NaN} \/ max_slp = PlusInf THEN FALSE
    ELSE IF current_slope = PlusInf THEN TRUE
    ELSE RatLess(max_slp, current_slope)

\* The loop of max_slope from pair n on, with the largest slope so far.
RECURSIVE max_slope_loop(_, _, _, _, _)
max_slope_loop(np, avg, var, n, max_slp) ==
    IF n >= Len(np.ntimes) - 1 THEN max_slp
    ELSE IF below_max_size(At(np.ntimes, n + 1) - At(np.ntimes, n), avg, var)
    THEN LET current_slope ==
                 calculate_slope(At(np.ntimes, n), At(np.ntimes, n + 1),
                                 At(np.nmags, n), At(np.nmags, n + 1))
         IN max_slope_loop(np, avg, var, n + 1,
                IF slope_greater(current_slope, max_slp)
                THEN current_slope ELSE max_slp)
    ELSE max_slope_loop(np, avg, var, n + 1, max_slp)

\* NonPeriodicFeature.max_slope. With fewer than two times there is no
\* interval (the average is nan, no exception) and the loop does not run.
max_slope(np) ==
    IF Len(np.ntimes) < 2 THEN Accessor(RatInt(0), "Max_Slope")
    ELSE LET stats == interval_avg_and_var(np)
             var == RatDivInt(RatSum(stats.squares), Len(stats.squares))
         IN Accessor(max_slope_loop(np, stats.avg, var, 0, RatInt(0)),
                     "Max_Slope")

\* NonPeriodicFeature.median_absolute_deviation: median of |nmags - median|
median_absolute_deviation(np) == Accessor(OfMags("median_absolute_deviation", np), "Median_Abs_Dev")

\* Element k (k = 1 the first) of np.sort of a non-empty array of integers.
kth_smallest(a, k) ==
    CHOOSE v \in {a[i] : i \in 1..Len(a)} :
        /\ Cardinality({i \in 1..Len(a) : a[i] < v}) < k
        /\ k <= Cardinality({i \in 1..Len(a) : a[i] <= v})

\* np.median of a non-empty array of integers: the middle element of the
\* sorted array, the mean of the two middle ones for an even length.
np_median(a) ==
    LET n == Len(a)
    IN IF n % 2 = 1 THEN RatInt(kth_smallest(a, (n + 1) \div 2))
       ELSE Rat(kth_smallest(a, n \div 2) + kth_smallest(a, n \div 2 + 1), 2)

\* The loop of median_buffer_range_percentage, "for n in range(len - 1)":
\* the number of values below lower_value or above upper_value.
number_values_out_of_range(a, lower_value, upper_value) ==
    Cardinality({n \in 0..(Len(a) - 2) :
                    \/ RatLess(RatInt(At(a, n)), lower_value)
                    \/ RatLess(upper_value, RatInt(At(a, n)))})

\* NonPeriodicFeature.median_buffer_range_percentage. Without magnitudes the
\* median is nan (no exception) and the last division is by 0.
median_buffer_range_percentage(np) ==
    IF Len(np.nmags) = 0
    THEN Failed("ZeroDivisionError", "Median_Buff_Range_Percent")
    ELSE LET median == np_median(np.nmags)
             upper_value == RatAdd(median, RatMul(Rat(1, 10), median))
             lower_value == RatSub(median, RatMul(Rat(1, 10), median))
             number_values == number_values_out_of_range(np.nmags, lower_value,
                                                         upper_value)
         IN Accessor(Rat(number_values * 100, Len(np.nmags)),
                     "Median_Buff_Range_Percent")

\* The default of the argument "number" of pair_slope_trend.
DefaultNumber == 30

\* The loop of pair_slope_trend over the pairs n .. len - 2: the number of
\* pairs that pass the interval test and have a positive slope.
num_positive_slopes(np, avg, var, first) ==
    Cardinality({n \in first..(Len(np.ntimes) - 2) :
        /\ below_max_size(At(np.ntimes, n + 1) - At(np.ntimes, n), avg, var)
        /\ slope_greater(calculate_slope(At(np.ntimes, n), At(np.ntimes, n + 1),
                                         At(np.nmags, n), At(np.nmags, n + 1)),
                         RatInt(0))})

\* NonPeriodicFeature.pair_slope_trend(number = 30): the percentage of
\* positive slopes among the last number - 1 pairs. A single observation
\* divides by number - 1 = 0; without observations the loop does not run.
pair_slope_trend(np) ==
    LET number == IF DefaultNumber > Len(np.ntimes) THEN Len(np.ntimes)
                  ELSE DefaultNumber
    IN IF number = 1 THEN Failed("ZeroDivisionError", "Pair_Slope_Trend")
       ELSE IF number = 0 THEN Accessor(RatInt(0), "Pair_Slope_Trend")
       ELSE LET stats == interval_avg_and_var(np)
                var == RatDivInt(RatSum(stats.squares), Len(stats.squares))
            IN Accessor(Rat(num_positive_slopes(np, stats.avg, var,
                                                Len(np.ntimes) - number) * 100,
                            number - 1),
                        "Pair_Slope_Trend")

\* NonPeriodicFeature.percent_amplitude: largest distance to the median, in
\* percent of max - min. Without magnitudes the median is nan (no
\* exception) and np.argmax raises ValueError.
percent_amplitude(np) ==
    IF Len(np.nmags) = 0 THEN Failed("ValueError", "Percent_Amplitude")
    ELSE Accessor(OfMags("percent_amplitude", np), "Percent_Amplitude")

\* NonPeriodicFeature.percent_difference_flux_percentile: median * 100 / (P95 - P5)
percent_difference_flux_percentile(np) == Accessor(OfMags("percent_difference_flux_percentile", np), "Percent_Diff_flux_Percentile")

\* NonPeriodicFeature.skew: scipy.stats.skew(nmags)
skew(np) == Accessor(OfMags("skew", np), "Skew")

\* NonPeriodicFeature.kurtosis: scipy.stats.kurtosis(nmags)
kurtosis(np) == Accessor(OfMags("kurtosis", np), "Kurtosis")

\* NonPeriodicFeature.std: np.std(nmags)
std(np) ==
    IF EqualValues(np.nmags)
    THEN Accessor(np_std(np.nmags), "Stand_Dev")
    ELSE Accessor(OfMags("std", np), "Stand_Dev")

\* NonPeriodicFeature.flux_percentile_ratio_mid20: (P60 - P40) / (P95 - P5)
flux_percentile_ratio_mid20(np) == Accessor(OfMags("flux_percentile_ratio_mid20", np), "Flux_Percentile_Ratio_Mid20")

\* NonPeriodicFeature.flux_percentile_ratio_mid35: (P67.5 - P32.5) / (P95 - P5)
flux_percentile_ratio_mid35(np) == Accessor(OfMags("flux_percentile_ratio_mid35", np), "Flux_Percentile_Ratio_Mid35")

\* NonPeriodicFeature.flux_percentile_ratio_mid50: (P75 - P25) / (P95 - P5)
flux_percentile_ratio_mid50(np) == Accessor(OfMags("flux_percentile_ratio_mid50", np), "Flux_Percentile_Ratio_Mid50")

\* NonPeriodicFeature.flux_percentile_ratio_mid65: (P82.5 - P17.5) / (P95 - P5)
flux_percentile_ratio_mid65(np) == Accessor(OfMags("flux_percentile_ratio_mid65", np), "Flux_Percentile_Ratio_Mid65")

\* NonPeriodicFeature.flux_percentile_ratio_mid80: (P90 - P10) / (P95 - P5)
flux_percentile_ratio_mid80(np) == Accessor(OfMags("flux_percentile_ratio_mid80", np), "Flux_Percentile_Ratio_Mid80")

-----------------------------------------------------------------------------
(* starfeatures.py: StarsFeatures.save_feature.                            *)

\* feature.append(value); feat_names.append(name) for the result r of an
\* accessor; an exception of the accessor ends save_feature.
append_feature(acc, r) ==
    IF acc.exc # "" THEN acc
    ELSE IF r.exc # "" THEN [acc EXCEPT !.exc = r.exc]
    ELSE [acc EXCEPT !.feature = Append(@, r.value),
                     !.feat_names = Append(@, r.name)]

\* feature.extend(value); feat_names.extend(name)
extend_feature(acc, r) ==
    IF acc.exc # "" THEN acc
    ELSE IF r.exc # "" THEN [acc EXCEPT !.exc = r.exc]
    ELSE [acc EXCEPT !.feature = @ \o r.value,
                     !.feat_names = @ \o r.name]

\* Faulty variant of frequencies_loop: the amplitude is appended before the frequency.
RECURSIVE frequencies_loop_amplitude_first(_, _, _)
frequencies_loop_amplitude_first(acc, perfeat, n) ==
    IF n >= 3 THEN acc
    ELSE frequencies_loop_amplitude_first(
            extend_feature(
                append_feature(
                    append_feature(acc, get_amplitude(perfeat, n)),
                    get_fund_freq(perfeat, n)),
                get_amplitude_firsts_harm(perfeat, n)),
            perfeat, n + 1)

\* The loop "for n in range(3)" of save_feature.
RECURSIVE frequencies_loop(_, _, _)
frequencies_loop(acc, perfeat, n) ==
    IF n >= 3 THEN acc
    ELSE frequencies_loop(
            extend_feature(
                append_feature(
                    append_feature(acc, get_fund_freq(perfeat, n)),
                    get_amplitude(perfeat, n)),
                get_amplitude_firsts_harm(perfeat, n)),
            perfeat, n + 1)

\* The non-periodic accessors in the order save_feature calls them.
nonperiodic_calls(noperfeat) ==
    <<amplitude_dif(noperfeat),
      beyond1st(noperfeat),
      linear_trend(noperfeat),
      max_slope(noperfeat),
      median_absolute_deviation(noperfeat),
      median_buffer_range_percentage(noperfeat),
      pair_slope_trend(noperfeat),
      percent_amplitude(noperfeat),
      percent_difference_flux_percentile(noperfeat),
      skew(noperfeat),
      kurtosis(noperfeat),
      std(noperfeat),
      flux_percentile_ratio_mid20(noperfeat),
      flux_percentile_ratio_mid35(noperfeat),
      flux_percentile_ratio_mid50(noperfeat),
      flux_percentile_ratio_mid65(noperfeat),
      flux_percentile_ratio_mid80(noperfeat)>>

RECURSIVE append_all(_, _)
append_all(acc, results) ==
    IF results = <<>> THEN acc
    ELSE append_all(append_feature(acc, Head(results)), Tail(results))

\* StarsFeatures.save_feature: [exc, feature, feat_names].
save_feature(perfeat, noperfeat) ==
    append_all(
        append_feature(
            frequencies_loop([exc |-> "", feature |-> <<>>, feat_names |-> <<>>],
                             perfeat, 0),
            freq_y_offset(perfeat)),
        nonperiodic_calls(noperfeat))

-----------------------------------------------------------------------------
(* The engine driven by one caller: discard_first_measures_far_in_time on  *)
(* its own, then calculate_periodgram_from_curve, then the extractors and  *)
(* save_feature (classification.py lines 48-66, starfeatures.py 222-232).  *)

\* Call discard_first_measures_far_in_time(unix_times) and keep its result.
Discard ==
    /\ pc = "start"
    /\ first_measure' = discard_first_measures_far_in_time(unix_times)
    /\ pc' = "discarded"
    /\ UNCHANGED <<lsprop, nmags, ntimes, unix_times, mags, scipy_pgram,
                   feature, feat_names, exc>>
    /\ UNCHANGED classes_vars
    /\ UNCHANGED sets_vars

\* Call calculate_periodgram_from_curve(unix_times, mags).
Compute ==
    /\ pc = "discarded"
    /\ \E r \in {calculate_periodgram_from_curve(lsprop, nmags, ntimes,
                                                  unix_times, mags,
                                                  scipy_pgram)} :
          /\ lsprop' = r.lsprop
          /\ nmags' = r.nmags
          /\ ntimes' = r.ntimes
          /\ exc' = r.exc
          /\ pc' = IF r.exc = "" THEN "computed" ELSE "failed"
    /\ UNCHANGED <<unix_times, mags, scipy_pgram, first_measure, feature,
                   feat_names>>
    /\ UNCHANGED classes_vars
    /\ UNCHANGED sets_vars

\* Build both extractors on the result and call save_feature.
Save ==
    /\ pc = "computed"
    /\ \E r \in {save_feature(PeriodicFeature(lsprop.pgram, lsprop, 3),
                                NonPeriodicFeature(nmags, ntimes))} :
          /\ exc' = r.exc
          /\ pc' = IF r.exc = "" THEN "saved" ELSE "failed"
          /\ feature' = IF r.exc = "" THEN r.feature ELSE feature
          /\ feat_names' = IF r.exc = "" THEN r.feat_names ELSE feat_names
    /\ UNCHANGED <<lsprop, nmags, ntimes, unix_times, mags, scipy_pgram,
                   first_measure>>
    /\ UNCHANGED classes_vars
    /\ UNCHANGED sets_vars

Next == Discard \/ Compute \/ Save

\* The StarClasses object and the loop are not used by this caller.
\* No TrainEvalSet object and no class names in play.
NoSets ==
    /\ stars_classes_names = <<>>
    /\ unique_classes_names = <<>>
    /\ tr_ev_sets = <<>>
    /\ indexes = <<>>

NoClasses ==
    /\ NoSets
    /\ db = <<>>
    /\ stars_identifiers = <<>>
    /\ enabled = <<>>
    /\ features_all_filters = <<>>
    /\ star_index = 0
    /\ filter_index = 0

\* The engine and the caller's results right after construction.
Constructed(lp) ==
    /\ lsprop = lp
    /\ nmags = <<>>
    /\ ntimes = <<>>
    /\ first_measure = 0
    /\ feature = <<>>
    /\ feat_names = <<>>
    /\ exc = ""
    /\ pc = "start"

\* The times that start at t0 and advance by the given gaps.
RECURSIVE TimesFrom(_, _)
TimesFrom(t0, gaps) ==
    IF gaps = <<>> THEN <<t0>>
    ELSE <<t0>> \o TimesFrom(t0 + Head(gaps), Tail(gaps))

\* Light curves of 0..MaxN observations; a gap may be negative or zero, as
\* the times are not guaranteed to increase.
StartTime == 7

\* Short gaps, and the long gaps of an observing-run boundary.
GapValues == ((0 - 1)..MaxGap) \cup {6, 40}

CurveTimes ==
    {<<>>} \cup
    UNION {{TimesFrom(StartTime, g) : g \in [1..k -> GapValues]} : k \in 0..(MaxN - 1)}

\* Curves that open with one isolated observation: a first gap of 100 times
\* the regular gap d or more, then 1..MaxRegularGaps gaps of d.
LongGapCurves ==
    UNION {{TimesFrom(StartTime, <<long>> \o [j \in 1..k |-> d]) :
               long \in {100 * d, 100 * d + 1, 250 * d},
               k \in 1..MaxRegularGaps} :
           d \in 1..MaxRegularGap}

\* Curves sampled at even spacing: 1..MaxEvenGaps gaps of d, so that the
\* longest have more than DefaultNumber observations.
EvenCurves ==
    {TimesFrom(StartTime, [j \in 1..k |-> d]) :
        d \in 1..MaxRegularGap, k \in 1..MaxEvenGaps}

\* Curves whose running mean lies on the lower limit -0.1 * new_m of the
\* acceptance test of discard_first_measures_far_in_time, where the rounding
\* of binary64 decides: a first gap of -9 d then four gaps of 2 d, or a
\* first gap of -10 d then nine gaps of d (the first observation is dated
\* after the others).
RoundingCurves ==
    UNION {{TimesFrom(StartTime, <<0 - 9 * d>> \o [j \in 1..4 |-> 2 * d]),
            TimesFrom(StartTime, <<0 - 10 * d>> \o [j \in 1..9 |-> d])} :
           d \in 1..MaxRegularGap}

\* Magnitudes of a curve of n observations, no two neighbours equal.
Magnitudes(n) == [i \in 1..n |-> 10 + ((3 * i) % 7)]

\* A spectrum of len bins that scipy could return.
SampleSpectrum(len) == [j \in 1..len |-> (2 * j) % 5]

\* max_freq_to_seek_: a cap below the Nyquist estimates of the curves, and the
\* default.
SeekCaps == {Rat(1, 4), RatInt(DefaultMaxFreqToSeek)}

\* Curve-driven specification: every curve, one spectrum.
InitCurve ==
    /\ \E cap \in SeekCaps :
          Constructed(LSProperties(DefaultFirstFreq, cap, MaxFreqs,
                                   DefaultNumberOfFreq))
    /\ unix_times \in CurveTimes \cup LongGapCurves \cup EvenCurves
                      \cup RoundingCurves
    /\ mags = Magnitudes(Len(unix_times))
    /\ scipy_pgram = SampleSpectrum(MaxFreqs)
    /\ NoClasses

SpecCurve == InitCurve /\ [][Next]_vars

\* Spectrum-driven specification: every spectrum of 1..MaxFreqs bins with
\* powers 0..MaxPower, every number_of_freq in 1..MaxPeaks, two curves.
SampleCurves == {<<0, 1, 2, 3>>, <<0, 4, 8, 12, 16>>}

FirstFreqs == {DefaultFirstFreq, DefaultFirstFreq + 1}

InitPgram ==
    /\ \E ff \in FirstFreqs, cap \in SeekCaps, len \in 1..MaxFreqs,
          k \in 1..MaxPeaks :
          Constructed(LSProperties(ff, cap, len, k))
    /\ unix_times \in SampleCurves
    /\ mags = Magnitudes(Len(unix_times))
    /\ scipy_pgram \in [1..lsprop.freq_to_calculate -> 0..MaxPower]
    /\ NoClasses

SpecPgram == InitPgram /\ [][Next]_vars

-----------------------------------------------------------------------------
(* The statistics of a series of equal magnitudes, each called on its own  *)
(* on a NonPeriodicFeature built on the series.                            *)

\* noperfeat.std()
CallStd ==
    /\ pc \in {"extractor", "std", "beyond1st"}
    /\ \E r \in {std(NonPeriodicFeature(nmags, ntimes))} :
          /\ feature' = <<r.value>>
          /\ feat_names' = <<r.name>>
          /\ exc' = r.exc
    /\ pc' = "std"
    /\ UNCHANGED <<lsprop, nmags, ntimes, unix_times, mags, scipy_pgram,
                   first_measure>>
    /\ UNCHANGED classes_vars
    /\ UNCHANGED sets_vars

\* noperfeat.beyond1st()
CallBeyond1st ==
    /\ pc \in {"extractor", "std", "beyond1st"}
    /\ \E r \in {beyond1st(NonPeriodicFeature(nmags, ntimes))} :
          /\ feature' = <<r.value>>
          /\ feat_names' = <<r.name>>
          /\ exc' = r.exc
    /\ pc' = "beyond1st"
    /\ UNCHANGED <<lsprop, nmags, ntimes, unix_times, mags, scipy_pgram,
                   first_measure>>
    /\ UNCHANGED classes_vars
    /\ UNCHANGED sets_vars

NextEqual == CallStd \/ CallBeyond1st

\* The double m * 2^e of an odd m = hi * 2^26 + lo.
Double(hi_, lo_, e_) ==
    Canonical(FALSE, BigAdd(BigShl(Limbs(hi_), 26), Limbs(lo_)), e_)

\* Magnitudes as float(text) reads them: 14.532, 0.1, 12.7, 15.001, 17.77,
\* 0.3, and the short fractions 13.0, 16.0, 13.5, 11.25.
SampleDoubles ==
    {Double(60951625, 48855253, 0 - 48),
     Double(53687091, 13421773, 0 - 55),
     Double(53267660, 53687091, 0 - 48),
     Double(125837508, 40802189, 0 - 49),
     Double(74532782, 5368709, 0 - 48),
     Double(80530636, 53687091, 0 - 54),
     Double(0, 13, 0), Double(0, 1, 4),
     Double(0, 27, 0 - 1), Double(0, 45, 0 - 2)}

MaxEqual == 6       \* longest series of equal magnitudes

\* A cleaned series of 2..MaxEqual equal magnitudes at regular times.
InitEqual ==
    /\ \E n \in 2..MaxEqual, v \in SampleDoubles :
          /\ nmags = [i \in 1..n |-> v]
          /\ ntimes = [i \in 1..n |-> i - 1]
    /\ lsprop = LSProperties(DefaultFirstFreq, RatInt(DefaultMaxFreqToSeek),
                             DefaultFreqToCalculate, DefaultNumberOfFreq)
    /\ unix_times = <<>>
    /\ mags = <<>>
    /\ scipy_pgram = <<>>
    /\ first_measure = 0
    /\ feature = <<>>
    /\ feat_names = <<>>
    /\ exc = ""
    /\ pc = "extractor"
    /\ NoClasses

SpecEqual == InitEqual /\ [][NextEqual]_vars

-----------------------------------------------------------------------------
(* starclasses.py and starfeatures.py: StarsFeatures.calculate_features.   *)
(* The LEMON database is outside the repository: db[star_id][filter] is    *)
(* what db.get_light_curve returns, None (no light curve) or the curve as  *)
(* its unpacking splits it, with the spectrum scipy computes for it.       *)

\* db.get_light_curve(star_id, pfilter) for the filter at filter_index.
get_light_curve(database, star_id, filter_idx) == At(database[star_id], filter_idx)

\* StarClasses.get_instance_id
get_instance_id(identifiers, index) == At(identifiers, index)

\* StarClasses.disable: the assignment raises IndexError when the list of
\* enabled flags has no such position.
disable(en, index) ==
    IF index + 1 \in DOMAIN en
    THEN [exc |-> "", enabled |-> [en EXCEPT ![index + 1] = FALSE]]
    ELSE [exc |-> "IndexError", enabled |-> en]

\* StarClasses.disable_star: disable the first star with this identifier;
\* an unknown identifier (ValueError of list.index) is passed over.
disable_star(identifiers, en, star_id) ==
    IF \E i \in 1..Len(identifiers) : identifiers[i] = star_id
    THEN LET index == CHOOSE i \in 0..(Len(identifiers) - 1) :
                          /\ At(identifiers, i) = star_id
                          /\ \A j \in 0..(i - 1) : At(identifiers, j) # star_id
         IN disable(en, index)
    ELSE [exc |-> "", enabled |-> en]

\* StarClasses.add_feature
add_feature(features, filter_idx, star_features) ==
    [features EXCEPT ![filter_idx + 1] = Append(@, star_features)]

\* Faulty variant of fake_feature: no feature is saved for the failed star.
fake_feature_skipped(features, filter_idx) == features

\* The fake feature saved for a disabled star (starfeatures.py lines 242-246).
fake_feature(features, filter_idx) == add_feature(features, filter_idx, <<>>)

\* LombScargle.calculate_periodgram: zip over the unpacked curve raises
\* TypeError on None, and splitting its result in three raises ValueError
\* on an empty curve.
calculate_periodgram(lp, nm, nt, curve) ==
    IF curve.none
    THEN [lsprop |-> lp, nmags |-> nm, ntimes |-> nt, exc |-> "TypeError"]
    ELSE IF Len(curve.times) = 0
    THEN [lsprop |-> lp, nmags |-> nm, ntimes |-> nt, exc |-> "ValueError"]
    ELSE calculate_periodgram_from_curve(lp, nm, nt, curve.times, curve.mags,
                                         curve.pgram)

\* The rest of the try statement of calculate_features, given the result r
\* of calculate_periodgram: the features save_feature returns, or the
\* exception that ended the statement.
features_of_curve(r) ==
    IF r.exc # ""
    THEN [exc |-> r.exc, feature |-> <<>>, feat_names |-> <<>>]
    ELSE save_feature(PeriodicFeature(r.lsprop.pgram, r.lsprop, 3),
                      NonPeriodicFeature(r.nmags, r.ntimes))

\* The photometric filters of the database (db.pfilters).
Filters == <<"B", "V">>

\* calculate_features up to its loop: one empty feature list per filter
\* (add_filter_name), a new LSProperties() and LombScargle(lsprop).
StartCalculation ==
    /\ pc = "init"
    /\ features_all_filters' =
           features_all_filters \o [f \in 1..Len(Filters) |-> <<>>]
    /\ lsprop' = LSProperties(DefaultFirstFreq, RatInt(DefaultMaxFreqToSeek),
                              DefaultFreqToCalculate, DefaultNumberOfFreq)
    /\ nmags' = <<>>
    /\ ntimes' = <<>>
    /\ star_index' = 0
    /\ filter_index' = 0
    /\ pc' = "loop"
    /\ UNCHANGED <<unix_times, mags, scipy_pgram, first_measure, feature,
                   feat_names, exc, db, stars_identifiers, enabled>>
    /\ UNCHANGED sets_vars

\* One pass of the inner loop: the light curve of star star_index in filter
\* filter_index. A TypeError disables the star and saves the fake feature;
\* any other exception, and one raised while disabling the star, leaves
\* calculate_features.
ProcessCurve ==
    /\ pc = "loop"
    /\ star_index < Len(stars_identifiers)
    /\ \E star_id \in {get_instance_id(stars_identifiers, star_index)} :
       \E curve \in {get_light_curve(db, star_id, filter_index)} :
       \E r \in {calculate_periodgram(lsprop, nmags, ntimes, curve)} :
       \E saved \in {features_of_curve(r)} :
       \E disabled \in {disable_star(stars_identifiers, enabled, star_id)} :
       \E raised \in {IF saved.exc = "TypeError" /\ disabled.exc # ""
                       THEN disabled.exc ELSE saved.exc} :
       \E last \in {filter_index + 1 = Len(Filters)} :
          /\ lsprop' = r.lsprop
          /\ nmags' = r.nmags
          /\ ntimes' = r.ntimes
          /\ unix_times' = curve.times
          /\ mags' = curve.mags
          /\ scipy_pgram' = curve.pgram
          /\ IF saved.exc = ""
             THEN /\ features_all_filters' =
                         add_feature(features_all_filters, filter_index,
                                     saved.feature)
                  /\ feature' = saved.feature
                  /\ feat_names' = saved.feat_names
                  /\ UNCHANGED enabled
             ELSE IF saved.exc = "TypeError" /\ disabled.exc = ""
             THEN /\ enabled' = disabled.enabled
                  /\ features_all_filters' =
                         fake_feature(features_all_filters, filter_index)
                  /\ UNCHANGED <<feature, feat_names>>
             ELSE UNCHANGED <<enabled, features_all_filters, feature, feat_names>>
          /\ exc' = raised
          /\ IF raised \in {"", "TypeError"}
             THEN /\ pc' = "loop"
                  /\ filter_index' = IF last THEN 0 ELSE filter_index + 1
                  /\ star_index' = IF last THEN star_index + 1 ELSE star_index
             ELSE /\ pc' = "aborted"
                  /\ UNCHANGED <<star_index, filter_index>>
    /\ UNCHANGED <<first_measure, db, stars_identifiers>>
    /\ UNCHANGED sets_vars

\* The loop over the stars is exhausted: calculate_features returns.
FinishCalculation ==
    /\ pc = "loop"
    /\ star_index = Len(stars_identifiers)
    /\ pc' = "done"
    /\ UNCHANGED <<engine_vars, exc, classes_vars, sets_vars>>

NextFeatures == StartCalculation \/ ProcessCurve \/ FinishCalculation

\* The spectrum scipy returns for a curve: a fixed function of the curve.
CurveSpectrum(times, ms, len) ==
    [j \in 1..len |-> (ms[1 + (j % Len(ms))] * (j + times[Len(times)])) % 11]

LightCurve(times, ms) ==
    [none |-> FALSE, times |-> times, mags |-> ms,
     pgram |-> CurveSpectrum(times, ms, DefaultFreqToCalculate)]

NoCurve == [none |-> TRUE, times |-> <<>>, mags |-> <<>>, pgram |-> <<>>]

\* What the database may hold for a star in a filter: no curve, two regular
\* curves, a curve whose observations share one time.
Catalogue ==
    {NoCurve,
     LightCurve(<<0, 2, 4, 6, 8>>, <<12, 15, 11, 14, 12>>),
     LightCurve(<<3, 43, 44, 45, 46>>, <<10, 13, 16, 13, 10>>),
     LightCurve(<<5, 5>>, <<11, 12>>)}

\* Identifier of the star at position i (1-based) of the set of stars.
StarId(i) == 100 + i

\* 0..MaxStars stars, no filter and no feature yet, and a database with a
\* light curve entry for every star in every filter. The stars were read
\* from a file of identifiers, which enables each of them, or from the
\* database, which leaves the list of enabled flags empty.
InitFeatures ==
    /\ \E n \in 0..MaxStars :
          /\ stars_identifiers = [i \in 1..n |-> StarId(i)]
          /\ enabled \in {[i \in 1..n |-> TRUE], <<>>}
          /\ db \in [{StarId(i) : i \in 1..n} -> [1..Len(Filters) -> Catalogue]]
    /\ NoSets
    /\ features_all_filters = <<>>
    /\ star_index = 0
    /\ filter_index = 0
    /\ lsprop = LSProperties(DefaultFirstFreq, RatInt(DefaultMaxFreqToSeek),
                             DefaultFreqToCalculate, DefaultNumberOfFreq)
    /\ nmags = <<>>
    /\ ntimes = <<>>
    /\ unix_times = <<>>
    /\ mags = <<>>
    /\ scipy_pgram = <<>>
    /\ first_measure = 0
    /\ feature = <<>>
    /\ feat_names = <<>>
    /\ exc = ""
    /\ pc = "init"

SpecFeatures == InitFeatures /\ [][NextFeatures]_vars

-----------------------------------------------------------------------------
(* trainevalsets.py: TrainEvalSet over the stars of a StarClasses object.  *)

\* The public names of a StarClasses object: its properties and methods
\* (starclasses.py lines 198-244 and the method definitions). The lists
\* __stars_identifiers, __stars_classes_names, __enabled ... are private.
StarClassesAttributes ==
    {"classes", "stars_identifiers", "star_identifier", "class_name",
     "is_enabled", "disable", "number_of_stars", "unique_classes_names",
     "filter_name", "add_filter_name", "filters_names", "number_of_filters",
     "get_class_id", "get_instance_id", "disable_star", "add_feature",
     "feature"}

\* The loop of StarClasses.get_unique_classes from position i on: each class
\* name that is not yet in the list of unique names is appended to it.
RECURSIVE get_unique_classes_loop(_, _, _)
get_unique_classes_loop(names, i, unique) ==
    IF i >= Len(names) THEN unique
    ELSE get_unique_classes_loop(names, i + 1,
             IF \E k \in 1..Len(unique) : unique[k] = At(names, i)
             THEN unique
             ELSE Append(unique, At(names, i)))

\* StarClasses.get_unique_classes: the new __unique_classes_names. The
\* attribute is not emptied first, so the names an earlier call left in it
\* stay, in their order, ahead of the new ones.
get_unique_classes(names, kept) == get_unique_classes_loop(names, 0, kept)

\* star_classes.enabled as a public list of flags that disable_star, which
\* clears __enabled, does not keep: readable, every star enabled.
enabled_attribute_never_cleared(en) == Return([i \in DOMAIN en |-> TRUE])

\* The expression star_classes.enabled: AttributeError unless the object
\* has an attribute of that name.
enabled_attribute(en) ==
    IF "enabled" \in StarClassesAttributes THEN Return(en)
    ELSE Raise("AttributeError")

\* TrainEvalSet.__init__
TrainEvalSet(min_cardinal_, training_set_percent_) ==
    [training_classes |-> <<>>,
     classes_indexes |-> <<>>,
     sets_of_training_indexes_for_classes |-> <<>>,
     sets_of_evaluation_indexes_for_classes |-> <<>>,
     min_cardinal |-> min_cardinal_,
     training_set_percent |-> training_set_percent_]

\* TrainEvalSet.get_indexes_for_class, from position i on: the "and" reads
\* star_classes.enabled only for a star of the class.
RECURSIVE indexes_for_class_loop(_, _, _, _, _)
indexes_for_class_loop(all_classes, en, class_name, i, instances_of_class) ==
    IF i >= Len(all_classes) THEN Return(instances_of_class)
    ELSE IF At(all_classes, i) # class_name
    THEN indexes_for_class_loop(all_classes, en, class_name, i + 1,
                                instances_of_class)
    ELSE LET e == enabled_attribute(en)
         IN IF e.exc # "" THEN Raise(e.exc)
            ELSE IF i + 1 \notin DOMAIN e.value THEN Raise("IndexError")
            ELSE indexes_for_class_loop(all_classes, en, class_name, i + 1,
                     IF At(e.value, i) = TRUE
                     THEN Append(instances_of_class, i)
                     ELSE instances_of_class)

get_indexes_for_class(all_classes, en, class_name) ==
    indexes_for_class_loop(all_classes, en, class_name, 0, <<>>)

\* Position (0-based) of the first occurrence of x in list, as list.index.
index_of(list, x) ==
    CHOOSE i \in 0..(Len(list) - 1) :
        /\ At(list, i) = x
        /\ \A j \in 0..(i - 1) : At(list, j) # x

\* The counting loop of determine_classes_to_use_for_training from position
\* i on; value is <<unique_classes, number_of_instances_by_class>>.
RECURSIVE count_instances_loop(_, _, _, _, _)
count_instances_loop(classes, en, i, unique_classes, counts) ==
    IF i >= Len(classes) THEN Return(<<unique_classes, counts>>)
    ELSE LET e == enabled_attribute(en)
             class_name == At(classes, i)
         IN IF e.exc # "" THEN Raise(e.exc)
            ELSE IF i + 1 \notin DOMAIN e.value THEN Raise("IndexError")
            ELSE IF At(e.value, i) # TRUE
            THEN count_instances_loop(classes, en, i + 1, unique_classes, counts)
            ELSE IF \E k \in 1..Len(unique_classes) : unique_classes[k] = class_name
            THEN count_instances_loop(classes, en, i + 1, unique_classes,
                     [counts EXCEPT ![index_of(unique_classes, class_name) + 1] = @ + 1])
            ELSE count_instances_loop(classes, en, i + 1,
                     Append(unique_classes, class_name), Append(counts, 1))

\* The selection loop of determine_classes_to_use_for_training from
\* position i on: the TrainEvalSet with the classes selected so far.
RECURSIVE select_classes_loop(_, _, _, _, _, _)
select_classes_loop(tes, classes, en, unique_classes, counts, i) ==
    IF i >= Len(unique_classes) THEN [exc |-> "", sets |-> tes]
    ELSE IF At(counts, i) >= tes.min_cardinal
    THEN LET named == [tes EXCEPT !.training_classes =
                                       Append(@, At(unique_classes, i))]
             instances == get_indexes_for_class(classes, en, At(unique_classes, i))
         IN IF instances.exc # "" THEN [exc |-> instances.exc, sets |-> named]
            ELSE select_classes_loop(
                     [named EXCEPT !.classes_indexes = Append(@, instances.value)],
                     classes, en, unique_classes, counts, i + 1)
    ELSE select_classes_loop(tes, classes, en, unique_classes, counts, i + 1)

\* TrainEvalSet.determine_classes_to_use_for_training
determine_classes_to_use_for_training(tes, classes, en) ==
    IF Len(classes) = 0 THEN [exc |-> "IndexError", sets |-> tes]
    ELSE LET counted == count_instances_loop(classes, en, 0,
                                             <<At(classes, 0)>>, <<0>>)
         IN IF counted.exc # "" THEN [exc |-> counted.exc, sets |-> tes]
            ELSE select_classes_loop(tes, classes, en, counted.value[1],
                                     counted.value[2], 0)

\* int(number_of_instances * training_set_percent / 100)
number_of_instances_for_training(number_of_instances, percent) ==
    (number_of_instances * percent) \div 100

\* The results random.sample(xrange(n), k) can give: k distinct positions
\* in any order.
Samples(n, k) ==
    {sample \in [1..k -> 0..(n - 1)] :
        \A a, b \in 1..k : a # b => sample[a] # sample[b]}

\* The evaluation indexes of a class of n instances given its training ones.
evaluation_indexes_of(n, training, k) ==
    IF n - k > 0
    THEN SelectSeq([i \in 1..n |-> i - 1],
                   LAMBDA x : \A a \in 1..Len(training) : training[a] # x)
    ELSE <<>>

\* The loop of calculate_training_and_evaluation_sets for the samples
\* drawn, one per selected class.
sets_for_samples(tes, drawn) ==
    [tes EXCEPT
        !.sets_of_training_indexes_for_classes = @ \o drawn,
        !.sets_of_evaluation_indexes_for_classes = @ \o
            [c \in 1..Len(drawn) |->
                evaluation_indexes_of(Len(tes.classes_indexes[c]), drawn[c],
                                      Len(drawn[c]))]]

\* The samples that may be drawn for the selected classes.
SampleChoices(tes) ==
    {drawn \in [1..Len(tes.classes_indexes) ->
                   UNION {Samples(Len(tes.classes_indexes[c]),
                              number_of_instances_for_training(
                                  Len(tes.classes_indexes[c]),
                                  tes.training_set_percent)) :
                          c \in 1..Len(tes.classes_indexes)}] :
        \A c \in 1..Len(tes.classes_indexes) :
            drawn[c] \in Samples(Len(tes.classes_indexes[c]),
                             number_of_instances_for_training(
                                 Len(tes.classes_indexes[c]),
                                 tes.training_set_percent))}

\* TrainEvalSet.__get_indexes: value is <<instances, class_identifiers>>.
RECURSIVE get_indexes_loop(_, _, _, _, _)
get_indexes_loop(tes, sets_of_indexes, class_index, instances, identifiers) ==
    IF class_index >= Len(tes.training_classes)
    THEN Return(<<instances, identifiers>>)
    ELSE IF class_index + 1 \notin DOMAIN sets_of_indexes
            \/ class_index + 1 \notin DOMAIN tes.classes_indexes
    THEN Raise("IndexError")
    ELSE LET index_set == At(sets_of_indexes, class_index)
             instances_set == At(tes.classes_indexes, class_index)
         IN get_indexes_loop(tes, sets_of_indexes, class_index + 1,
                instances \o [a \in 1..Len(index_set) |->
                                 At(instances_set, index_set[a])],
                identifiers \o [a \in 1..Len(index_set) |-> class_index])

get_indexes(tes, sets_of_indexes) ==
    get_indexes_loop(tes, sets_of_indexes, 0, <<>>, <<>>)

\* TrainEvalSet.calculate_training_and_evaluation_sets, called once on the
\* new object as evaluate_classifier does.
CalculateSets ==
    /\ pc = "constructed"
    /\ \E d \in {determine_classes_to_use_for_training(
                     tr_ev_sets, stars_classes_names, enabled)} :
          /\ exc' = d.exc
          /\ IF d.exc # ""
             THEN /\ tr_ev_sets' = d.sets
                  /\ pc' = "failed"
             ELSE /\ \E drawn \in SampleChoices(d.sets) :
                        tr_ev_sets' = sets_for_samples(d.sets, drawn)
                  /\ pc' = "calculated"
    /\ UNCHANGED <<engine_vars, classes_vars, stars_classes_names,
                   unique_classes_names, indexes>>

\* TrainEvalSet.training_indexes
TrainingIndexes ==
    /\ pc \in {"constructed", "calculated", "failed"}
    /\ \E r \in {get_indexes(tr_ev_sets,
                     tr_ev_sets.sets_of_training_indexes_for_classes)} :
          /\ exc' = r.exc
          /\ indexes' = r.value
    /\ UNCHANGED <<engine_vars, classes_vars, stars_classes_names,
                   unique_classes_names, tr_ev_sets, pc>>

\* TrainEvalSet.evaluation_indexes
EvaluationIndexes ==
    /\ pc \in {"constructed", "calculated", "failed"}
    /\ \E r \in {get_indexes(tr_ev_sets,
                     tr_ev_sets.sets_of_evaluation_indexes_for_classes)} :
          /\ exc' = r.exc
          /\ indexes' = r.value
    /\ UNCHANGED <<engine_vars, classes_vars, stars_classes_names,
                   unique_classes_names, tr_ev_sets, pc>>

NextSets == CalculateSets \/ TrainingIndexes \/ EvaluationIndexes

ClassNames == {"RRLyr", "EB"}
MinCardinals == {1, 2}
TrainingPercents == {50, 100}

\* The unique names that the reading of a stars-id file leaves in the
\* StarClasses object before read_features sets the stars of a features
\* file: none when no such file was read.
KeptClassNames ==
    {get_unique_classes(earlier, <<>>) :
        earlier \in UNION {[1..k -> ClassNames] : k \in 0..Cardinality(ClassNames)}}

\* Up to MaxClassified stars with their class names, some of them disabled
\* by calculate_features, the unique names accumulated over the readings
\* (read_features, which sets the stars anew, enables them all), and a new
\* TrainEvalSet over them.
InitSets ==
    /\ \E n \in 0..MaxClassified :
          /\ stars_identifiers = [i \in 1..n |-> StarId(i)]
          /\ stars_classes_names \in [1..n -> ClassNames]
          /\ enabled \in [1..n -> BOOLEAN]
    /\ \E kept \in KeptClassNames :
          /\ kept = <<>> \/ \A i \in 1..Len(enabled) : enabled[i]
          /\ unique_classes_names = get_unique_classes(stars_classes_names, kept)
    /\ \E m \in MinCardinals, p \in TrainingPercents :
          tr_ev_sets = TrainEvalSet(m, p)
    /\ indexes = <<>>
    /\ db = <<>>
    /\ features_all_filters = <<>>
    /\ star_index = 0
    /\ filter_index = 0
    /\ lsprop = LSProperties(DefaultFirstFreq, RatInt(DefaultMaxFreqToSeek),
                             DefaultFreqToCalculate, DefaultNumberOfFreq)
    /\ nmags = <<>>
    /\ ntimes = <<>>
    /\ unix_times = <<>>
    /\ mags = <<>>
    /\ scipy_pgram = <<>>
    /\ first_measure = 0
    /\ feature = <<>>
    /\ feat_names = <<>>
    /\ exc = ""
    /\ pc = "constructed"

SpecSets == InitSets /\ [][NextSets]_vars

-----------------------------------------------------------------------------
(* Properties of the engine and of the periodic extractor.                 *)

\* calculate_periodgram_from_curve has returned for the current curve.
Computed == pc \in {"computed", "saved"} \/ (pc = "failed" /\ lsprop.pgram # <<>>)

\* The extractors the caller builds on the computed spectrum.
CurrentPerFeat == PeriodicFeature(lsprop.pgram, lsprop, 3)
CurrentNoPerFeat == NonPeriodicFeature(nmags, ntimes)

Pair(r) == [value |-> r.value, name |-> r.name]

\* The six entries of fundamental frequency n: frequency, amplitude and the
\* four harmonic amplitudes.
FrequencyEntries(pf, n) ==
    <<Pair(get_fund_freq(pf, n)), Pair(get_amplitude(pf, n))>> \o
    [h \in 1..4 |-> [value |-> get_amplitude_firsts_harm(pf, n).value[h],
                     name |-> get_amplitude_firsts_harm(pf, n).name[h]]]

\* The documented order of the feature vector.
DocumentedOrder(pf, np) ==
    FrequencyEntries(pf, 0) \o FrequencyEntries(pf, 1) \o FrequencyEntries(pf, 2) \o
    <<Pair(freq_y_offset(pf)),
      Pair(amplitude_dif(np)), Pair(beyond1st(np)), Pair(linear_trend(np)),
      Pair(max_slope(np)), Pair(median_absolute_deviation(np)),
      Pair(median_buffer_range_percentage(np)), Pair(pair_slope_trend(np)),
      Pair(percent_amplitude(np)), Pair(percent_difference_flux_percentile(np)),
      Pair(skew(np)), Pair(kurtosis(np)), Pair(std(np)),
      Pair(flux_percentile_ratio_mid20(np)), Pair(flux_percentile_ratio_mid35(np)),
      Pair(flux_percentile_ratio_mid50(np)), Pair(flux_percentile_ratio_mid65(np)),
      Pair(flux_percentile_ratio_mid80(np))>>

\* C1: whenever save_feature returns (no accessor failed) it returns exactly
\* 36 values and 36 names, and position i holds the value and the name of the
\* i-th accessor of the documented order: per fundamental frequency 0, 1, 2
\* the frequency, the amplitude and the 4 harmonic amplitudes, then the
\* spectrum offset, then the 17 non-periodic features.
C1_FeatureVectorOrder ==
    pc = "saved" =>
        /\ Len(feature) = 36
        /\ Len(feat_names) = 36
        /\ \A i \in 1..36 :
              /\ feat_names[i] = DocumentedOrder(CurrentPerFeat, CurrentNoPerFeat)[i].name
              /\ feature[i] = DocumentedOrder(CurrentPerFeat, CurrentNoPerFeat)[i].value

\* A vector was assembled from a spectrum whose three peaks have different
\* powers and whose second peak has a harmonic outside the spectrum.
C1_Witness ==
    /\ pc = "saved"
    /\ feature[2] > feature[8]
    /\ feature[8] > feature[14]
    /\ At(lsprop.index_max_values, 1) * 4 >= Len(lsprop.pgram)

\* The working copy before the k-th selection (k = 1 is the first): the
\* spectrum with the bins selected earlier set to 0.
WorkingCopy(spectrum, selected, k) ==
    [j \in 1..Len(spectrum) |->
        IF \E e \in 1..(k - 1) : selected[e] = j - 1 THEN 0 ELSE spectrum[j]]

\* i is the lowest index holding the maximum of a.
LowestMaximum(a, i) ==
    /\ i \in 0..(Len(a) - 1)
    /\ \A j \in 1..Len(a) : a[j] <= a[i + 1]
    /\ \A j \in 1..i : a[j] < a[i + 1]

\* C2: after the engine has run, index_max_values holds exactly number_of_freq
\* indices, the k-th being the lowest index of the maximum of the spectrum with
\* the k-1 bins selected before it (and only those) set to 0; the spectrum
\* lsprop.pgram is the one scipy returned, unchanged.
C2_GreedyPeaks ==
    Computed =>
        /\ Len(lsprop.index_max_values) = lsprop.number_of_freq
        /\ \A k \in 1..lsprop.number_of_freq :
              LowestMaximum(WorkingCopy(scipy_pgram, lsprop.index_max_values, k),
                            lsprop.index_max_values[k])
        /\ lsprop.pgram = scipy_pgram

\* Three peaks were selected in a spectrum whose maximum is held by two bins,
\* the second selection being the later of the two.
C2_Witness ==
    /\ Computed
    /\ lsprop.number_of_freq = 3
    /\ At(lsprop.index_max_values, 0) < At(lsprop.index_max_values, 1)
    /\ At(lsprop.pgram, At(lsprop.index_max_values, 0)) =
           At(lsprop.pgram, At(lsprop.index_max_values, 1))
    /\ At(lsprop.index_max_values, 2) # At(lsprop.index_max_values, 0)
    /\ At(lsprop.index_max_values, 2) # At(lsprop.index_max_values, 1)
    /\ At(lsprop.pgram, At(lsprop.index_max_values, 2)) > 0

\* first_freq + index * (upper - first_freq) / freq_to_calculate
AffineFrequency(lp, upper, index) ==
    RatAdd(RatInt(lp.first_freq),
           RatMul(RatInt(index),
                  RatDivInt(RatSub(upper, RatInt(lp.first_freq)),
                            lp.freq_to_calculate)))

\* C3 (as claimed): after the engine has run, the frequency of every index of
\* the spectrum is first_freq + index * (max_freq_calculated - first_freq) /
\* freq_to_calculate, with max_freq_calculated the upper bound the engine
\* determined for the curve.
C3_FrequencyFromUpperBound ==
    Computed =>
        \A index \in 0..(Len(lsprop.pgram) - 1) :
            LET r == get_freq_from_index(CurrentPerFeat, index)
            IN /\ r.exc = ""
               /\ r.value = AffineFrequency(lsprop, lsprop.max_freq_calculated, index)

\* C4 (as claimed): with first_freq = 1, the frequency of an index is strictly
\* increasing over the indices of the spectrum, and the frequency of index 0
\* is first_freq.
C4_FrequencyIncreasing ==
    (Computed /\ lsprop.first_freq = DefaultFirstFreq) =>
        /\ get_freq_from_index(CurrentPerFeat, 0).value = RatInt(lsprop.first_freq)
        /\ \A i, j \in 0..(Len(lsprop.pgram) - 1) :
              i < j => RatLess(get_freq_from_index(CurrentPerFeat, i).value,
                               get_freq_from_index(CurrentPerFeat, j).value)

\* The walk of the specification: stop at the first i whose suffix mean new_m
\* has 0.9 * new_m <= m <= 1.1 * new_m and return i - 1; 0 if there is none.
RECURSIVE WalkWithinTenPercent(_, _, _)
WalkWithinTenPercent(g, m, i) ==
    IF i >= Len(g) THEN 0
    ELSE LET new_m == Mean(SliceFrom(g, i))
         IN IF /\ RatLeq(RatMul(Rat(9, 10), new_m), m)
               /\ RatLeq(m, RatMul(Rat(11, 10), new_m))
            THEN i - 1
            ELSE WalkWithinTenPercent(g, new_m, i + 1)

Increasing(times) == \A i \in 1..(Len(times) - 1) : times[i] < times[i + 1]

\* C5 (as claimed): for at least 2 times, the index returned is the one of the
\* walk that accepts a running mean within plus or minus 10% of the suffix
\* mean. Stated for strictly increasing times, the case the heuristic is
\* meant for.
C5_StopsWithinTenPercent ==
    (pc # "start" /\ Len(unix_times) >= 2 /\ Increasing(unix_times)) =>
        first_measure = WalkWithinTenPercent(Intervals(unix_times),
                                             Mean(Intervals(unix_times)), 1)

\* C30: for N >= 2 times, the index f that
\* discard_first_measures_far_in_time returned satisfies
\* 0 <= f <= max(0, N - 3): the whole series is never discarded, and when a
\* prefix is discarded at least 3 observations remain.
C30_DiscardedPrefixBounded ==
    (pc # "start" /\ Len(unix_times) >= 2) =>
        LET N == Len(unix_times)
            f == first_measure
        IN /\ 0 <= f
           /\ f <= (IF N - 3 > 0 THEN N - 3 ELSE 0)
           /\ f > 0 => N - f >= 3

\* The index returned for a series of 4 observations or more left exactly
\* 3 of them: the walk accepted at its last step.
C30_Witness ==
    /\ pc # "start"
    /\ Len(unix_times) >= 4
    /\ Increasing(unix_times)
    /\ first_measure = Len(unix_times) - 3
    /\ first_measure = discard_first_measures_far_in_time(unix_times)

\* C6: for N >= 2 times and magnitudes, when the engine returns, the cleaned
\* times and magnitudes both have N - f entries (f the index returned by
\* discard_first_measures_far_in_time), the first cleaned time is 0, cleaned
\* time k is times[f + k] - times[f] and cleaned magnitude k is
\* magnitudes[f + k].
C6_CleanedSeries ==
    (Computed /\ Len(unix_times) >= 2) =>
        LET N == Len(unix_times)
            f == first_measure
        IN /\ Len(ntimes) = N - f
           /\ Len(nmags) = N - f
           /\ At(ntimes, 0) = 0
           /\ \A k \in 0..(N - f - 1) :
                 /\ At(ntimes, k) = At(unix_times, f + k) - At(unix_times, f)
                 /\ At(nmags, k) = At(mags, f + k)

\* The engine returned for a curve of which a prefix of two observations was
\* discarded.
C6_Witness ==
    /\ Computed
    /\ Increasing(unix_times)
    /\ first_measure = 2
    /\ Len(ntimes) = Len(unix_times) - 2
    /\ Len(ntimes) >= 3

\* (N - 1 - first_valid_index) / (times[last] - times[first_valid_index])
SampleFreq == Rat(Len(unix_times) - 1 - first_measure,
                  At(unix_times, Len(unix_times) - 1) - At(unix_times, first_measure))

\* C7: when the engine returns, max_freq_calculated is the larger of
\* sample_freq / 2 and max_freq_to_seek, so it is never below max_freq_to_seek.
C7_UpperBoundIsMax ==
    Computed =>
        LET half == RatDivInt(SampleFreq, 2)
        IN /\ lsprop.max_freq_calculated \in {half, lsprop.max_freq_to_seek}
           /\ RatLeq(half, lsprop.max_freq_calculated)
           /\ RatLeq(lsprop.max_freq_to_seek, lsprop.max_freq_calculated)

\* The engine returned with an upper bound above the configured one.
C7_Witness ==
    /\ Computed
    /\ RatLess(lsprop.max_freq_to_seek, lsprop.max_freq_calculated)
    /\ lsprop.max_freq_calculated = RatDivInt(SampleFreq, 2)

\* C8: for every peak slot n, with p the peak index of the slot and L the
\* length of the spectrum, get_amplitude_firsts_harm(n) returns 4 values and 4
\* names, value h (h = 0..3) being spectrum[p * (h + 1)] when p * (h + 1) < L
\* and 0 otherwise.
C8_HarmonicZeroFill ==
    Computed =>
        \A n \in 0..(Len(lsprop.index_max_values) - 1) :
            LET r == get_amplitude_firsts_harm(CurrentPerFeat, n)
                p == At(lsprop.index_max_values, n)
                L == Len(lsprop.pgram)
            IN /\ r.exc = ""
               /\ Len(r.value) = 4
               /\ Len(r.name) = 4
               /\ \A h \in 0..3 :
                     At(r.value, h) = IF p * (h + 1) < L
                                      THEN At(lsprop.pgram, p * (h + 1))
                                      ELSE 0

\* A peak at index 1 of a spectrum of 4 bins: its harmonics 1 and 2 read the
\* non-zero bins 2 and 3, harmonic 3 lies outside the spectrum.
C8_Witness ==
    /\ Computed
    /\ Len(lsprop.pgram) = 4
    /\ At(lsprop.index_max_values, 0) = 1
    /\ At(lsprop.pgram, 2) > 0
    /\ At(lsprop.pgram, 3) > 0
    /\ get_amplitude_firsts_harm(CurrentPerFeat, 0).value =
           <<At(lsprop.pgram, 1), At(lsprop.pgram, 2), At(lsprop.pgram, 3), 0>>

\* C28: for every peak slot n of a computed spectrum, the first of the four
\* harmonic amplitudes of the slot is the amplitude of the slot (harmonic 0
\* reads the bin at the peak index times 1), and in a saved vector every
\* entry Amp_Harm_0 repeats the fundamental amplitude saved just before it.
C28_FirstHarmonicIsAmplitude ==
    /\ Computed =>
          \A n \in 0..(Len(lsprop.index_max_values) - 1) :
              LET harm_amps == get_amplitude_firsts_harm(CurrentPerFeat, n)
                  amp == get_amplitude(CurrentPerFeat, n)
              IN /\ harm_amps.exc = ""
                 /\ amp.exc = ""
                 /\ At(harm_amps.value, 0) = amp.value
    /\ pc = "saved" =>
          \A i \in 2..Len(feat_names) :
              feat_names[i] = "Amp_Harm_0" =>
                  /\ feat_names[i - 1] \in {"Fund_Amp_0", "Fund_Amp_1", "Fund_Amp_2"}
                  /\ feature[i] = feature[i - 1]

\* A vector was saved whose second peak is the last bin of the spectrum, of
\* non-zero power: its harmonic 0 repeats that power and its harmonic 1 lies
\* outside the spectrum.
C28_Witness ==
    /\ pc = "saved"
    /\ Len(lsprop.pgram) >= 3
    /\ At(lsprop.index_max_values, 1) = Len(lsprop.pgram) - 1
    /\ At(lsprop.pgram, Len(lsprop.pgram) - 1) > 0
    /\ \E i \in 2..Len(feat_names) :
          /\ feat_names[i] = "Amp_Harm_0"
          /\ feat_names[i - 1] = "Fund_Amp_1"
          /\ feature[i] = At(lsprop.pgram, Len(lsprop.pgram) - 1)
          /\ feature[i + 1] = 0

\* C29 (as claimed): the 36 names of a saved feature vector are pairwise
\* distinct.
C29_FeatureNamesDistinct ==
    pc = "saved" =>
        /\ Len(feat_names) = 36
        /\ \A i, j \in 1..Len(feat_names) :
              i # j => feat_names[i] # feat_names[j]

\* C12: whenever the last time of a non-empty series equals the time at
\* the index discard_first_measures_far_in_time returned, the computation has
\* failed with the division error (the program's DegenerateTimeSpan) and has
\* produced no spectrum: pgram, the upper frequency and the peaks are as
\* constructed.
C12_DegenerateTimeSpanFails ==
    (/\ pc \in {"computed", "failed", "saved"}
     /\ Len(unix_times) > 0
     /\ unix_times[Len(unix_times)] = At(unix_times, first_measure)) =>
        /\ pc = "failed"
        /\ exc = "ZeroDivisionError"
        /\ lsprop.pgram = <<>>
        /\ lsprop.max_freq_calculated = Absent
        /\ lsprop.index_max_values = <<>>

\* A series of three observations or more whose last time is the first
\* retained one has been given to the computation.
C12_Witness ==
    /\ pc = "failed"
    /\ exc = "ZeroDivisionError"
    /\ Len(unix_times) >= 3
    /\ unix_times[Len(unix_times)] = At(unix_times, first_measure)
    /\ unix_times[2] # unix_times[1]

\* C13 (as claimed): whenever fewer than 4 observations remain after the
\* leading ones are discarded, the computation has failed and has produced
\* no spectrum.
C13_InsufficientDataFails ==
    (/\ pc \in {"computed", "failed", "saved"}
     /\ Len(unix_times) - first_measure < 4) =>
        /\ pc = "failed"
        /\ exc # ""
        /\ lsprop.pgram = <<>>

\* C14 (as claimed): given fewer than 2 time points,
\* discard_first_measures_far_in_time fails instead of returning an index:
\* the caller never gets past the call (a caller past it holds the index
\* returned in first_measure).
C14_TooFewTimesFails ==
    Len(unix_times) < 2 => pc = "start"

\* The extractor built on the computed spectrum for num_freq peaks.
PerFeatFor(num_freq) == PeriodicFeature(lsprop.pgram, lsprop, num_freq)

\* C15 (as claimed): on the computed spectrum, for every num_freq given to
\* the extractor and every slot n >= 0, get_amplitude(n) raises IndexError
\* when n >= num_freq or n >= len(index_max_values), as get_fund_freq(n)
\* does, and returns pgram[index_max_values[n]] otherwise.
C15_AmplitudeSlotChecked ==
    Computed =>
        \A num_freq \in 1..MaxPeaks, n \in 0..MaxPeaks :
            LET r == get_amplitude(PerFeatFor(num_freq), n)
            IN IF n >= num_freq \/ n >= Len(lsprop.index_max_values)
               THEN /\ r.exc = "IndexError"
                    /\ get_fund_freq(PerFeatFor(num_freq), n).exc = "IndexError"
               ELSE /\ r.exc = ""
                    /\ r.value = At(lsprop.pgram, At(lsprop.index_max_values, n))

\* C16: on the computed spectrum, for every num_freq given to the extractor
\* and every slot n >= 0, get_fund_freq(n) raises IndexError when
\* n >= num_freq or n >= len(index_max_values), and otherwise returns the
\* frequency __get_freq_from_index gives for index_max_values[n], under the
\* name Fund_Freq_n.
C16_FundFreqSlotChecked ==
    Computed =>
        \A num_freq \in 1..MaxPeaks, n \in 0..MaxPeaks :
            LET r == get_fund_freq(PerFeatFor(num_freq), n)
            IN IF n >= num_freq \/ n >= Len(lsprop.index_max_values)
               THEN r.exc = "IndexError"
               ELSE /\ r.exc = ""
                    /\ r.value =
                          get_freq_from_index(PerFeatFor(num_freq),
                              At(lsprop.index_max_values, n)).value
                    /\ r.name = "Fund_Freq_" \o ToString(n)

\* Three peaks were selected, the last one past index 0, and an extractor
\* for two of them is asked for slots 1 and 2.
C16_Witness ==
    /\ Computed
    /\ Len(lsprop.index_max_values) = 3
    /\ At(lsprop.index_max_values, 1) > 0
    /\ get_fund_freq(PerFeatFor(2), 1).exc = ""
    /\ get_fund_freq(PerFeatFor(2), 2).exc = "IndexError"

\* C17: on a spectrum of non-negative powers, the k-th index selected is
\* none of the indices selected before it unless every bin not selected
\* before it is 0; and selecting one more peak on the spectrum with all the
\* selected bins zeroed gives an index that is none of the selected ones,
\* unless that spectrum is all 0.
C17_PeaksDistinct ==
    Computed =>
        /\ \A k \in 1..Len(lsprop.index_max_values) :
              (\E j \in 1..Len(scipy_pgram) :
                  WorkingCopy(scipy_pgram, lsprop.index_max_values, k)[j] > 0)
              => \A e \in 1..(k - 1) :
                    lsprop.index_max_values[e] # lsprop.index_max_values[k]
        /\ LET rest == WorkingCopy(scipy_pgram, lsprop.index_max_values,
                                   Len(lsprop.index_max_values) + 1)
               one_more == get_index_max_values(
                               [lsprop EXCEPT !.pgram = rest,
                                              !.number_of_freq = 1])
           IN (\E j \in 1..Len(rest) : rest[j] > 0)
              => /\ Len(one_more) = 1
                 /\ \A e \in 1..Len(lsprop.index_max_values) :
                       lsprop.index_max_values[e] # one_more[1]

\* Three distinct peaks were selected and a fourth bin is still positive.
C17_Witness ==
    /\ Computed
    /\ Len(lsprop.index_max_values) = 3
    /\ Cardinality({lsprop.index_max_values[e] : e \in 1..3}) = 3
    /\ \E j \in 1..Len(scipy_pgram) :
          WorkingCopy(scipy_pgram, lsprop.index_max_values, 4)[j] > 0

\* C18 (as claimed): on a spectrum of non-negative powers, the amplitude of
\* slot 0 is the maximum of the spectrum and the amplitude of each slot is
\* at least that of the next one, whatever the number of non-zero bins.
C18_PeaksDescending ==
    Computed =>
        /\ \A j \in 1..Len(lsprop.pgram) :
              lsprop.pgram[j] <= get_amplitude(CurrentPerFeat, 0).value
        /\ \A n \in 0..(Len(lsprop.index_max_values) - 2) :
              get_amplitude(CurrentPerFeat, n).value >=
                  get_amplitude(CurrentPerFeat, n + 1).value

\* The first gap of the series is at least 100 times the regular gap
\* d > 0, and the gaps after it, between 2 and 20 of them, all equal d.
LongFirstGap(times) ==
    LET g == Intervals(times)
    IN /\ Len(g) - 1 \in 2..20
       /\ g[2] > 0
       /\ \A j \in 2..Len(g) : g[j] = g[2]
       /\ g[1] >= 100 * g[2]

\* C19: for such a series discard_first_measures_far_in_time returns 1, and
\* the computation then succeeds with the cleaned times re-based on the
\* second observation, the first of them 0.
C19_IsolatedFirstPointDropped ==
    LongFirstGap(unix_times) =>
        /\ pc # "start" => first_measure = 1
        /\ pc \notin {"start", "discarded"} =>
              /\ Computed
              /\ Len(ntimes) = Len(unix_times) - 1
              /\ At(ntimes, 0) = 0
              /\ \A k \in 0..(Len(ntimes) - 1) :
                    At(ntimes, k) = At(unix_times, k + 1) - At(unix_times, 1)

\* The engine returned for a series with a first gap of 100 times the
\* regular gap followed by 20 regular gaps.
C19_Witness ==
    /\ pc = "computed"
    /\ LongFirstGap(unix_times)
    /\ Len(unix_times) = 22
    /\ unix_times[2] - unix_times[1] = 100 * (unix_times[3] - unix_times[2])
    /\ first_measure = 1

\* The consecutive pairs (n, n + 1), 0-based, of the cleaned series whose
\* time gap is below mean(dt) + std(dt).
GapPassingPairs ==
    LET stats == interval_avg_and_var(CurrentNoPerFeat)
        var == RatDivInt(RatSum(stats.squares), Len(stats.squares))
    IN {n \in 0..(Len(ntimes) - 2) :
           below_max_size(At(ntimes, n + 1) - At(ntimes, n), stats.avg, var)}

\* |dmag / dt| of pair n.
AbsSlope(n) ==
    Rat(Abs(At(nmags, n + 1) - At(nmags, n)), Abs(At(ntimes, n + 1) - At(ntimes, n)))

\* C20 (as claimed): when the features of a series of increasing times have
\* been saved and some pair passes the gap test, the value saved as
\* Max_Slope is the largest |dmag/dt| over the passing pairs.
C20_MaxAbsoluteSlope ==
    (/\ pc = "saved"
     /\ Increasing(unix_times)
     /\ GapPassingPairs # {}) =>
        \A i \in 1..Len(feat_names) :
            feat_names[i] = "Max_Slope" =>
                /\ \E n \in GapPassingPairs : feature[i] = AbsSlope(n)
                /\ \A n \in GapPassingPairs : RatLeq(AbsSlope(n), feature[i])

\* All the intervals of a series of times are equal.
EvenlySpaced(times) ==
    \A n \in 1..(Len(times) - 1) : times[n + 1] - times[n] = times[2] - times[1]

\* C27: when the features of a cleaned series of two observations or more
\* at even spacing have been saved, no consecutive pair passes the interval
\* test, and the values saved as Max_Slope and as Pair_Slope_Trend are 0,
\* whatever the magnitudes.
C27_EvenSpacingNoSlope ==
    (/\ pc = "saved"
     /\ Len(ntimes) >= 2
     /\ EvenlySpaced(ntimes)) =>
        /\ GapPassingPairs = {}
        /\ \A i \in 1..Len(feat_names) :
              feat_names[i] \in {"Max_Slope", "Pair_Slope_Trend"} =>
                  feature[i] = RatInt(0)

\* The features of an evenly spaced series of more than DefaultNumber
\* observations, with rising magnitudes among them, are saved with both
\* slopes 0.
C27_Witness ==
    /\ pc = "saved"
    /\ Len(ntimes) > DefaultNumber
    /\ EvenlySpaced(ntimes)
    /\ \E n \in 1..(Len(nmags) - 1) : nmags[n + 1] > nmags[n]
    /\ \E i, j \in 1..Len(feat_names) :
          /\ feat_names[i] = "Max_Slope" /\ feature[i] = RatInt(0)
          /\ feat_names[j] = "Pair_Slope_Trend" /\ feature[j] = RatInt(0)

\* The number of magnitudes of the cleaned series, over all its points,
\* within 10% of the median: median - 0.1 median <= mag <= median + 0.1 median.
PointsWithinTenPercentOfMedian ==
    LET median == np_median(nmags)
        tenth == RatMul(Rat(1, 10), median)
    IN Cardinality({p \in 1..Len(nmags) :
                       /\ RatLeq(RatSub(median, tenth), RatInt(nmags[p]))
                       /\ RatLeq(RatInt(nmags[p]), RatAdd(median, tenth))})

\* C21 (as claimed): when the features of a series have been saved, the
\* value saved as Median_Buff_Range_Percent is 100 times the number of
\* points, over all N points of the series, within 10% of the median,
\* divided by N.
C21_PercentageWithinMedianBand ==
    pc = "saved" =>
        \A i \in 1..Len(feat_names) :
            feat_names[i] = "Median_Buff_Range_Percent" =>
                feature[i] = Rat(100 * PointsWithinTenPercentOfMedian, Len(nmags))

\* C22 (as claimed): for every series of 2 or more equal magnitudes, std()
\* returns 0 and beyond1st() returns 0.
C22_EqualValuesNoDeviation ==
    /\ pc = "std" => feature[1] = FloatZero
    /\ pc = "beyond1st" => feature[1] = RatInt(0)

-----------------------------------------------------------------------------
(* Properties of calculate_features.                                       *)

\* The pairs (star position s, filter position f), 0-based, that the loop
\* has handled.
Handled(s, f) ==
    /\ s \in 0..(Len(stars_identifiers) - 1)
    /\ f \in 0..(Len(Filters) - 1)
    /\ \/ s < star_index
       \/ s = star_index /\ f < filter_index

\* The outcome of the periodogram and feature computation of star s in
\* filter f on an engine of its own.
OwnOutcome(s, f) ==
    features_of_curve(
        calculate_periodgram(
            LSProperties(DefaultFirstFreq, RatInt(DefaultMaxFreqToSeek),
                         DefaultFreqToCalculate, DefaultNumberOfFreq),
            <<>>, <<>>,
            get_light_curve(db, get_instance_id(stars_identifiers, s), f)))

\* C9 (as claimed): the run is never aborted, every star one of whose handled
\* light curves failed, with whatever failure, is disabled, and each handled
\* pair left exactly one entry in its filter's list (no retry).
C9_FailureNeverAborts ==
    /\ pc # "aborted"
    /\ \A s \in 0..(Len(stars_identifiers) - 1), f \in 0..(Len(Filters) - 1) :
          (Handled(s, f) /\ OwnOutcome(s, f).exc # "") =>
              (s + 1 \in DOMAIN enabled /\ ~At(enabled, s))
    /\ pc \in {"loop", "done"} =>
          \A f \in 0..(Len(Filters) - 1) :
              Len(At(features_all_filters, f)) =
                  Cardinality({s \in 0..(Len(stars_identifiers) - 1) : Handled(s, f)})

\* What calculate_features obtains for a light curve on the engine
\* (lp, nm, nt): the exception that ends the try statement, or the
\* spectrum, the peaks, the cleaned series and the feature vector.
Obtained(lp, nm, nt, curve) ==
    LET r == calculate_periodgram(lp, nm, nt, curve)
        saved == features_of_curve(r)
    IN IF saved.exc # ""
       THEN [exc |-> saved.exc, pgram |-> <<>>, index_max_values |-> <<>>,
             nmags |-> <<>>, ntimes |-> <<>>, feature |-> <<>>]
       ELSE [exc |-> "", pgram |-> r.lsprop.pgram,
             index_max_values |-> r.lsprop.index_max_values,
             nmags |-> r.nmags, ntimes |-> r.ntimes,
             feature |-> saved.feature]

\* A new LSProperties() and the series of a new LombScargle.
NewEngine ==
    LSProperties(DefaultFirstFreq, RatInt(DefaultMaxFreqToSeek),
                 DefaultFreqToCalculate, DefaultNumberOfFreq)

\* C23: at every point of calculate_features, whatever light curves the
\* one LSProperties and the one LombScargle object have processed so far
\* (failed ones included), every light curve gives on them the spectrum,
\* the peaks, the cleaned series and the feature vector (or the failure) it
\* gives on new objects; and what the engine holds after a call that
\* returned is what new objects hold for that curve.
C23_StatelessAcrossStars ==
    /\ \A curve \in Catalogue :
          Obtained(lsprop, nmags, ntimes, curve) =
              Obtained(NewEngine, <<>>, <<>>, curve)
    /\ (pc \in {"loop", "done"} /\ exc = "" /\ unix_times # <<>>) =>
          LET own == Obtained(NewEngine, <<>>, <<>>, LightCurve(unix_times, mags))
          IN /\ lsprop.pgram = own.pgram
             /\ lsprop.index_max_values = own.index_max_values
             /\ nmags = own.nmags
             /\ ntimes = own.ntimes
             /\ feature = own.feature

\* The engine holds the results of one light curve, the call after it
\* failed, and another light curve of the catalogue has other peaks and
\* another cleaned series than those the engine holds.
C23_Witness ==
    /\ pc = "loop"
    /\ exc = "TypeError"
    /\ lsprop.pgram # <<>>
    /\ \E curve \in Catalogue :
          /\ Obtained(lsprop, nmags, ntimes, curve).exc = ""
          /\ Obtained(lsprop, nmags, ntimes, curve).index_max_values #
                 lsprop.index_max_values
          /\ Obtained(lsprop, nmags, ntimes, curve).ntimes # ntimes

\* C10: once calculate_features has entered its loop, whenever stars 0..k
\* have been handled for all filters (k + 1 = star_index, no filter of the
\* next star handled yet), each filter's list holds exactly k + 1 entries and
\* entry i is the 36-value vector computed from the light curve of star i in
\* that filter, or the empty list if that computation failed.
C10_FeaturesIndexedByStar ==
    (pc \in {"loop", "done"} /\ filter_index = 0) =>
        \A f \in 0..(Len(Filters) - 1) :
            /\ Len(At(features_all_filters, f)) = star_index
            /\ \A i \in 0..(star_index - 1) :
                  At(At(features_all_filters, f), i) =
                      IF OwnOutcome(i, f).exc # "" THEN <<>>
                      ELSE OwnOutcome(i, f).feature
            /\ \A i \in 0..(star_index - 1) :
                  Len(At(At(features_all_filters, f), i)) \in {0, 36}

\* The run ended with two stars, the first without a light curve in the
\* first filter and the second with a vector of 36 values there.
C10_Witness ==
    /\ pc = "done"
    /\ star_index = 2
    /\ At(At(features_all_filters, 0), 0) = <<>>
    /\ Len(At(At(features_all_filters, 0), 1)) = 36
    /\ Len(At(At(features_all_filters, 1), 0)) = 36
    /\ At(At(features_all_filters, 1), 0) # At(At(features_all_filters, 0), 1)

-----------------------------------------------------------------------------
(* Properties of the training and evaluation sets.                         *)

\* The number of enabled stars of a class.
EnabledInstances(class_name) ==
    Cardinality({i \in 1..Len(stars_classes_names) :
                    stars_classes_names[i] = class_name /\ enabled[i]})

\* C11: a disabled star is in no list of stars that training_indexes() or
\* evaluation_indexes() has returned or would return, it is not among the
\* instances kept for a training class, and it is not counted for the
\* selection: a class in the list of training classes has min_cardinal
\* stars or more without its disabled ones.
C11_DisabledStarsExcluded ==
    /\ indexes # <<>> =>
           \A a \in 1..Len(indexes[1]) : At(enabled, indexes[1][a])
    /\ \A sets_of_indexes \in
              {tr_ev_sets.sets_of_training_indexes_for_classes,
               tr_ev_sets.sets_of_evaluation_indexes_for_classes} :
           \E r \in {get_indexes(tr_ev_sets, sets_of_indexes)} :
               r.exc = "" =>
                   \A a \in 1..Len(r.value[1]) : At(enabled, r.value[1][a])
    /\ \A k \in 1..Len(tr_ev_sets.classes_indexes) :
           \A a \in 1..Len(tr_ev_sets.classes_indexes[k]) :
               At(enabled, tr_ev_sets.classes_indexes[k][a])
    /\ \A k \in 1..Len(tr_ev_sets.training_classes) :
           EnabledInstances(tr_ev_sets.training_classes[k]) >=
               tr_ev_sets.min_cardinal

\* The sets were calculated and an index list was returned after that, for
\* stars with a disabled one whose class has min_cardinal stars only when
\* the disabled ones are counted.
C11_Witness ==
    /\ pc = "failed"
    /\ exc = ""
    /\ indexes # <<>>
    /\ \E i \in 1..Len(enabled) :
           /\ ~enabled[i]
           /\ EnabledInstances(stars_classes_names[i]) < tr_ev_sets.min_cardinal
           /\ Cardinality({j \in 1..Len(stars_classes_names) :
                              stars_classes_names[j] = stars_classes_names[i]})
                  >= tr_ev_sets.min_cardinal

\* A class name is in the list of training classes.
SelectedForTraining(c) ==
    \E k \in 1..Len(tr_ev_sets.training_classes) :
        tr_ev_sets.training_classes[k] = c

\* The stars (0-based positions) that training_indexes() and
\* evaluation_indexes() return, with their class identifiers, as a set of
\* pairs; no pair when the call raises.
ReturnedPairs(sets_of_indexes) ==
    LET r == get_indexes(tr_ev_sets, sets_of_indexes)
    IN IF r.exc # "" THEN {}
       ELSE {<<r.value[1][a], r.value[2][a]>> : a \in 1..Len(r.value[1])}

ReturnedForTraining ==
    ReturnedPairs(tr_ev_sets.sets_of_training_indexes_for_classes)

ReturnedForEvaluation ==
    ReturnedPairs(tr_ev_sets.sets_of_evaluation_indexes_for_classes)

\* C24 (as claimed): once determine_classes_to_use_for_training has run, a
\* class is selected for training exactly when the number of its enabled
\* instances is bigger than the minimum cardinal, and no instance of another
\* class is returned for training or for evaluation.
C24_SelectedAboveMinCardinal ==
    pc # "constructed" =>
        /\ \A c \in ClassNames :
              SelectedForTraining(c) <=>
                  EnabledInstances(c) > tr_ev_sets.min_cardinal
        /\ \A pair \in ReturnedForTraining \cup ReturnedForEvaluation :
              EnabledInstances(At(stars_classes_names, pair[1])) >
                  tr_ev_sets.min_cardinal

\* The positions (0-based) of the enabled stars of a class.
EnabledPositions(c) ==
    {i \in 0..(Len(stars_classes_names) - 1) :
        At(stars_classes_names, i) = c /\ At(enabled, i)}

\* The stars of the k-th training class that a list of index sets names.
StarsOfSet(sets_of_indexes, k) ==
    {At(tr_ev_sets.classes_indexes[k], sets_of_indexes[k][a]) :
        a \in 1..Len(sets_of_indexes[k])}

\* C25: once calculate_training_and_evaluation_sets has run, every class in
\* the list of training classes, with its n enabled instances, has a
\* training and an evaluation set that are disjoint and without a repeated
\* index, whose union is the n enabled instances of the class, the training
\* set with floor(n * training_set_percent / 100) of them.
C25_SetsPartitionEachClass ==
    pc # "constructed" =>
        \A k \in 1..Len(tr_ev_sets.training_classes) :
            /\ k \in DOMAIN tr_ev_sets.classes_indexes
            /\ k \in DOMAIN tr_ev_sets.sets_of_training_indexes_for_classes
            /\ k \in DOMAIN tr_ev_sets.sets_of_evaluation_indexes_for_classes
            /\ LET c == tr_ev_sets.training_classes[k]
                   tr == tr_ev_sets.sets_of_training_indexes_for_classes
                   ev == tr_ev_sets.sets_of_evaluation_indexes_for_classes
               IN /\ StarsOfSet(tr, k) \cap StarsOfSet(ev, k) = {}
                  /\ Cardinality(StarsOfSet(tr, k)) = Len(tr[k])
                  /\ Cardinality(StarsOfSet(ev, k)) = Len(ev[k])
                  /\ StarsOfSet(tr, k) \cup StarsOfSet(ev, k) =
                         EnabledPositions(c)
                  /\ Len(tr[k]) =
                         (EnabledInstances(c) * tr_ev_sets.training_set_percent)
                             \div 100

\* The case of C25: the sets were calculated and some class is in the list
\* of training classes.
C25_SomeClassSelected ==
    pc # "constructed" /\ tr_ev_sets.training_classes # <<>>

\* C26: every star that training_indexes() or evaluation_indexes() returns
\* is paired with the position of its class name in unique_classes_names,
\* whatever classes are dropped and whatever stars are disabled.
C26_ClassIdentifierIsUniquePosition ==
    \A pair \in ReturnedForTraining \cup ReturnedForEvaluation :
        pair[2] = index_of(unique_classes_names,
                           At(stars_classes_names, pair[1]))

\* The case of C26: some star is returned with a class identifier.
C26_SomeStarReturned ==
    ReturnedForTraining \cup ReturnedForEvaluation # {}

=============================================================================
